---- MODULE Spec2Model ----
(***************************************************************************)
(* A model of golog (github.com/thinkphoebe/golog): the Logger of log.go   *)
(* in its synchronous and asynchronous modes, with its header compiler,    *)
(* its redirects, and the RotateWriter of file.go over a directory of      *)
(* files.                                                                  *)
(*                                                                         *)
(* Strings are sequences of one-character strings.  A goroutine is a       *)
(* process with a program counter; a blocking channel send or a mutex      *)
(* Lock is a step whose guard is the condition under which it proceeds.    *)
(* A panic that nothing recovers ends the program: crashed = TRUE and no   *)
(* step is taken afterwards.                                               *)
(***************************************************************************)
EXTENDS Integers, Sequences, FiniteSets, TLC

(***************************************************************************)
(* Bounds of the model.                                                    *)
(***************************************************************************)
\* calling goroutines
NumG == 2
\* distinct IOutput values
NumSinks == 3
\* emit calls in one run
MaxEmits == 2
\* AddOutput / RemoveOutput calls in one run (NewLogger's own AddOutput not counted)
MaxCmds == 3
\* SetLevel calls in one run
MaxSetLevel == 1
\* on an asynchronous Logger: emit calls, and AddOutput / RemoveOutput calls, in one run
MaxAsyncEmits == 2
MaxAsyncCmds == 2
\* pieces in a format string given to NewLogger, and emit calls after it
MaxPieces == 2
MaxNewEmits == 1
\* emit calls in one run of the backpressure scenario
MaxFloodEmits == 7
\* the capacities of chOut (AsyncBuffer, 1000 in the program), of chCmd (100 in
\* the program) and of each chIn (OutputBuffer, 10000 in the program), scaled down
AsyncBuffer == 1
CmdBuffer == 1
OutputBuffer == 3
\* on a RotateWriter: Write calls in one run, the sizes SetRotateSize is given,
\* the length of a message, the failing renames and opens in one run
MaxWrites == 4
MaxRotateSize == 3
MaxMsgLen == 2
MaxFaults == 1
\* lines written through a redirected slot in one run
MaxLines == 2
\* the clock: months 1 .. MaxMon, days 1 .. MaxDay, hours 0 .. MaxHour
MaxMon == 2
MaxDay == 2
MaxHour == 1
MaxChars == 2

(***************************************************************************)
(* Program constants.                                                      *)
(***************************************************************************)
LevelDebug == 0
LevelInfo == 1
LevelWarn == 2
LevelError == 3
LevelCritical == 4

\* RotateMode, and the size a RotateWriter starts with
RotateNone == 0
RotateByHour == 1
RotateByDay == 2
RotateBySize == 3
defaultRotateSize == 100000000

Levels == LevelDebug .. LevelCritical
Goroutines == 1 .. NumG
\* the goroutine AddRedirect starts, and every goroutine that calls the Logger
Scanner == NumG + 1
\* the goroutine a second AddRedirect on the same slot starts
Scanner2 == NumG + 2
Procs == Goroutines \cup {Scanner, Scanner2}
Sinks == 1 .. NumSinks

(***************************************************************************)
(* Strings.                                                                *)
(***************************************************************************)
Lower == {"a","b","c","d","e","f","g","h","i","j","k","l","m",
          "n","o","p","q","r","s","t","u","v","w","x","y","z"}
Upper == {"A","B","C","D","E","F","G","H","I","J","K","L","M",
          "N","O","P","Q","R","S","T","U","V","W","X","Y","Z"}
Digits == {"0","1","2","3","4","5","6","7","8","9"}
\* the regexp class \w
WordChars == Lower \cup Upper \cup Digits \cup {"_"}

KwAsctime == <<"a","s","c","t","i","m","e">>
KwFilename == <<"f","i","l","e","n","a","m","e">>
KwFunction == <<"f","u","n","c","t","i","o","n">>
KwLineno == <<"l","i","n","e","n","o">>
KwLevelno == <<"l","e","v","e","l","n","o">>
Keywords == {KwAsctime, KwFilename, KwFunction, KwLineno, KwLevelno}

\* s[a..b], empty when b < a
Slice(s, a, b) == IF b < a THEN << >> ELSE SubSeq(s, a, b)

\* strings.IndexByte: the first position of c in s at or after p, 0 when none
RECURSIVE IndexFrom(_, _, _)
IndexFrom(s, c, p) ==
  IF p > Len(s) THEN 0
  ELSE IF s[p] = c THEN p
  ELSE IndexFrom(s, c, p + 1)

\* strings.Split(s, sep) for a one-character separator
RECURSIVE Split(_, _)
Split(s, c) ==
  LET i == IndexFrom(s, c, 1) IN
  IF i = 0 THEN << s >>
  ELSE << Slice(s, 1, i - 1) >> \o Split(Slice(s, i + 1, Len(s)), c)

(***************************************************************************)
(* The header compiler: setHeaderFormat.                                   *)
(***************************************************************************)
\* the class [\w\:] of the placeholder regexp
IsKwChar(c) == c \in WordChars \cup {":"}

\* the last position of the run of [\w\:] characters that starts at j (j-1 when empty)
RECURSIVE RunEnd(_, _)
RunEnd(s, j) ==
  IF j <= Len(s) /\ IsKwChar(s[j]) THEN RunEnd(s, j + 1) ELSE j - 1

\* the regexp %\([\w\:]+\) anchored at i: the position of its closing
\* parenthesis, 0 when it does not match there
MatchAt(s, i) ==
  IF i + 1 <= Len(s) /\ s[i] = "%" /\ s[i + 1] = "("
  THEN LET e == RunEnd(s, i + 2) IN
       IF e >= i + 2 /\ e + 1 <= Len(s) /\ s[e + 1] = ")" THEN e + 1 ELSE 0
  ELSE 0

\* reg.FindAllStringIndex(fmtStr, -1) from position p on: the leftmost
\* non-overlapping matches, each <<first, last>> (1-based, inclusive)
RECURSIVE FindAll(_, _)
FindAll(s, p) ==
  IF p > Len(s) THEN << >>
  ELSE LET e == MatchAt(s, p) IN
       IF e = 0 THEN FindAll(s, p + 1)
       ELSE << <<p, e>> >> \o FindAll(s, e + 1)

CopySession(str) ==
  [isCopy |-> TRUE, strCopy |-> str, name |-> << >>, gen |-> << >>]

\* (a directive session whose field name is the keyword, alias or not)
GenSession_NoAlias(name, kw) ==
  [isCopy |-> FALSE, strCopy |-> << >>, name |-> kw, gen |-> kw]

\* a directive session; gen names the genHeader closure by its keyword
GenSession(name, kw) ==
  [isCopy |-> FALSE, strCopy |-> << >>, name |-> name, gen |-> kw]

\* the loop over the matches: beg is the first position not yet consumed
RECURSIVE CompileFrom(_, _, _, _)
CompileFrom(s, matches, k, beg) ==
  IF k > Len(matches)
  THEN [err |-> FALSE,
        sessions |-> IF beg <= Len(s)
                     THEN << CopySession(Slice(s, beg, Len(s))) >>
                     ELSE << >>]
  ELSE LET m == matches[k]
           lit == IF m[1] > beg
                  THEN << CopySession(Slice(s, beg, m[1] - 1)) >>
                  ELSE << >>
           kw == Slice(s, m[1] + 2, m[2] - 1)
           secs == Split(kw, ":")
           name == IF Len(secs) > 1 THEN secs[2] ELSE secs[1]
       IN
       IF secs[1] \notin Keywords
       THEN [err |-> TRUE, sessions |-> << >>]
       ELSE LET rest == CompileFrom(s, matches, k + 1, m[2] + 1) IN
            [err |-> rest.err,
             sessions |-> IF rest.err THEN << >>
                          ELSE lit \o << GenSession(name, secs[1]) >> \o rest.sessions]

\* (a compilation that accepts every format string)
setHeaderFormat_Lenient(fmtStr) == [err |-> FALSE, sessions |-> << >>]

\* setHeaderFormat(fmtStr): err, and the sessions it stores when err is nil
setHeaderFormat(fmtStr) == CompileFrom(fmtStr, FindAll(fmtStr, 1), 1, 1)

(***************************************************************************)
(* Rendering: the genHeader closures and output.                           *)
(***************************************************************************)
\* the levels table: var levels, which SetLevelTag assigns to
VARIABLE levels

\* the tags levels is declared with
DefaultTags == <<<<"D">>, <<"I">>, <<"W">>, <<"E">>, <<"C">>>>

DigitChars == <<"0", "1", "2", "3", "4", "5", "6", "7", "8", "9">>

\* strconv.Itoa(x) for x >= 0
RECURSIVE Itoa(_)
Itoa(x) == IF x >= 10 THEN Itoa(x \div 10) \o <<DigitChars[(x % 10) + 1]>>
           ELSE <<DigitChars[x + 1]>>

\* appendInt(b, x, width): the digits of x behind zeros up to the width
appendInt(b, x, width) ==
  LET d == Itoa(x) IN
  b \o [i \in 1 .. (IF Len(d) < width THEN width - Len(d) ELSE 0) |-> "0"] \o d

\* strings.LastIndexByte(s, c), 0 when c does not occur
RECURSIVE LastIndex(_, _, _)
LastIndex(s, c, p) ==
  IF p = 0 THEN 0 ELSE IF s[p] = c THEN p ELSE LastIndex(s, c, p - 1)

\* what the run time gives for one emit: time.Now() and runtime.Caller with
\* runtime.FuncForPC
CallEnv ==
  [now |-> [year |-> 2024, mon |-> 1, day |-> 2, hour |-> 3, min |-> 4, sec |-> 5,
            nsec |-> 6000000],
   ok |-> TRUE, hasFunc |-> TRUE,
   file |-> <<"d", "/", "f", ".", "g", "o">>,
   fn |-> <<"p", "/", "q", ".", "F">>,
   line |-> 42]

\* runtime.Caller finds the frame and runtime.FuncForPC returns nil
CallEnvNoFunc == [CallEnv EXCEPT !.hasFunc = FALSE]

\* runtime.Caller finds no frame at the calldepth it is given
CallEnvFailed == [CallEnv EXCEPT !.ok = FALSE]

Unknown3 == <<"?", "?", "?">>

\* logItem{level, calldepth}: filename and function empty, line 0
NewItem(lv) == [level |-> lv, filename |-> << >>, function |-> << >>, line |-> 0,
                lookups |-> 0]

\* initCaller(item)
initCaller(item, env) ==
  LET got == IF env.ok
             THEN [item EXCEPT !.filename = env.file, !.line = env.line,
                               !.function = IF env.hasFunc THEN env.fn ELSE Unknown3]
             ELSE [item EXCEPT !.filename = Unknown3, !.line = 0]
      i == LastIndex(got.filename, "/", Len(got.filename))
      file == IF i > 0 THEN Slice(got.filename, i + 1, Len(got.filename)) ELSE got.filename
      j == LastIndex(got.function, "/", Len(got.function))
      fn1 == IF j > 0 THEN Slice(got.function, j + 1, Len(got.function)) ELSE got.function
      k == IndexFrom(fn1, ".", 1)
      fn2 == IF k > 0 THEN Slice(fn1, k + 1, Len(fn1)) ELSE fn1
  IN [got EXCEPT !.filename = file, !.function = fn2, !.lookups = @ + 1]

\* the genHeader closure of a keyword: the buffer and the item after it
genHeader(kw, buf, item, env) ==
  IF kw = KwAsctime
  THEN LET n == env.now
           b1 == appendInt(buf, n.year, 4) \o <<"-">>
           b2 == appendInt(b1, n.mon, 2) \o <<"-">>
           b3 == appendInt(b2, n.day, 2) \o <<" ">>
           b4 == appendInt(b3, n.hour, 2) \o <<":">>
           b5 == appendInt(b4, n.min, 2) \o <<":">>
           b6 == appendInt(b5, n.sec, 2) \o <<".">>
       IN [buf |-> appendInt(b6, n.nsec \div 1000000, 3), item |-> item]
  ELSE IF kw = KwFilename
  THEN LET it == IF Len(item.filename) = 0 THEN initCaller(item, env) ELSE item IN
       [buf |-> buf \o it.filename, item |-> it]
  ELSE IF kw = KwFunction
  THEN LET it == IF Len(item.function) = 0 THEN initCaller(item, env) ELSE item IN
       [buf |-> buf \o it.function, item |-> it]
  ELSE IF kw = KwLineno
  THEN LET it == IF item.line < 0 THEN initCaller(item, env) ELSE item IN
       [buf |-> buf \o Itoa(it.line), item |-> it]
  ELSE [buf |-> buf \o levels[item.level + 1], item |-> item]

\* the loop of output over l.headerSessions, from session k on
RECURSIVE HeaderLoop(_, _, _, _, _)
HeaderLoop(sessions, k, buf, item, env) ==
  IF k > Len(sessions) THEN [buf |-> buf, item |-> item]
  ELSE IF sessions[k].isCopy
  THEN HeaderLoop(sessions, k + 1, buf \o sessions[k].strCopy, item, env)
  ELSE LET r == genHeader(sessions[k].gen, buf, item, env) IN
       HeaderLoop(sessions, k + 1, r.buf, r.item, env)

\* (a terminator is appended to every message)
NeedsTerminator_Always(s) == TRUE

\* len(s) == 0 || s[len(s)-1] != '\n'
NeedsTerminator(s) == Len(s) = 0 \/ s[Len(s)] # "\n"

\* output(level, calldepth, s): the bytes it passes to write
output(sessions, lv, s, env) ==
  LET buf == HeaderLoop(sessions, 1, << >>, NewItem(lv), env).buf \o s IN
  IF NeedsTerminator(s) THEN buf \o <<"\n">> ELSE buf

(***************************************************************************)
(* OutputJson: the fields, and encoding/json's Marshal of them.            *)
(***************************************************************************)
\* the values of a Json map: a string, an int, or a value Marshal returns
\* an error for (a channel, a func, a NaN)
JStr(s) == [t |-> "str", s |-> s, n |-> 0]
JInt(n) == [t |-> "int", s |-> << >>, n |-> n]
JBad == [t |-> "bad", s |-> << >>, n |-> 0]

\* the printable characters in byte order, those from 0x20 to 0x5f
AsciiLow ==
  <<" ", "!", "\"", "#", "$", "%", "&", "'", "(", ")", "*", "+", ",", "-", ".", "/",
    "0", "1", "2", "3", "4", "5", "6", "7", "8", "9", ":", ";", "<", "=", ">", "?",
    "@", "A", "B", "C", "D", "E", "F", "G", "H", "I", "J", "K", "L", "M", "N", "O",
    "P", "Q", "R", "S", "T", "U", "V", "W", "X", "Y", "Z", "[", "\\", "]", "^", "_">>

\* and the ones from 0x61 on
AsciiHigh ==
  <<"a", "b", "c", "d", "e", "f", "g", "h", "i", "j", "k", "l", "m", "n", "o",
    "p", "q", "r", "s", "t", "u", "v", "w", "x", "y", "z", "{", "|", "}", "~">>

ByteOf(c) ==
  IF c = "\n" THEN 10
  ELSE IF \E i \in 1 .. Len(AsciiLow) : AsciiLow[i] = c
  THEN 31 + (CHOOSE i \in 1 .. Len(AsciiLow) : AsciiLow[i] = c)
  ELSE 96 + (CHOOSE i \in 1 .. Len(AsciiHigh) : AsciiHigh[i] = c)

\* a < b as Go compares strings: byte by byte
RECURSIVE Less(_, _)
Less(a, b) ==
  IF Len(b) = 0 THEN FALSE
  ELSE IF Len(a) = 0 THEN TRUE
  ELSE IF a[1] = b[1] THEN Less(Tail(a), Tail(b))
  ELSE ByteOf(a[1]) < ByteOf(b[1])

\* the keys of a map in the order Marshal writes them: sorted
RECURSIVE SortKeys(_)
SortKeys(S) ==
  IF S = {} THEN << >>
  ELSE LET k == CHOOSE x \in S : \A y \in S \ {x} : Less(x, y) IN
       <<k>> \o SortKeys(S \ {k})

\* one character of a string as Marshal writes it (HTML escaping is on)
EscapeChar(c) ==
  IF c = "\"" THEN <<"\\", "\"">>
  ELSE IF c = "\\" THEN <<"\\", "\\">>
  ELSE IF c = "\n" THEN <<"\\", "n">>
  ELSE IF c = "<" THEN <<"\\", "u", "0", "0", "3", "c">>
  ELSE IF c = ">" THEN <<"\\", "u", "0", "0", "3", "e">>
  ELSE IF c = "&" THEN <<"\\", "u", "0", "0", "2", "6">>
  ELSE <<c>>

RECURSIVE Quote(_)
Quote(s) == IF Len(s) = 0 THEN << >> ELSE EscapeChar(s[1]) \o Quote(Tail(s))

\* a string between quotes
JsonString(s) == <<"\"">> \o Quote(s) \o <<"\"">>

JsonValue(v) == IF v.t = "str" THEN JsonString(v.s) ELSE Itoa(v.n)

\* the members of the object, from key i of the sorted keys on
RECURSIVE Members(_, _, _)
Members(items, keys, i) ==
  IF i > Len(keys) THEN << >>
  ELSE (IF i > 1 THEN <<",">> ELSE << >>)
       \o JsonString(keys[i]) \o <<":">> \o JsonValue(items[keys[i]])
       \o Members(items, keys, i + 1)

\* json.Marshal(items): err, and the bytes when err is nil
Marshal(items) ==
  IF \E k \in DOMAIN items : items[k].t = "bad"
  THEN [err |-> TRUE, buf |-> << >>]
  ELSE [err |-> FALSE,
        buf |-> <<"{">> \o Members(items, SortKeys(DOMAIN items), 1) \o <<"}">>]

\* (a header field that leaves a caller field of the same key in place)
SetField_KeepCaller(items, name, value) ==
  [k \in DOMAIN items \cup {name} |-> IF k \in DOMAIN items THEN items[k] ELSE JStr(value)]

\* items[s.name] = string(value)
SetField(items, name, value) ==
  [k \in DOMAIN items \cup {name} |-> IF k = name THEN JStr(value) ELSE items[k]]

\* the loop of OutputJson over l.headerSessions, from session k on
RECURSIVE JsonLoop(_, _, _, _, _, _)
JsonLoop(sessions, k, buf, items, item, env) ==
  IF k > Len(sessions) THEN [buf |-> buf, items |-> items]
  ELSE IF sessions[k].isCopy
  THEN JsonLoop(sessions, k + 1,
                IF k = 1 THEN buf \o sessions[k].strCopy ELSE buf, items, item, env)
  ELSE LET r == genHeader(sessions[k].gen, << >>, item, env) IN
       JsonLoop(sessions, k + 1, buf, SetField(items, sessions[k].name, r.buf), r.item, env)

(***************************************************************************)
(* The state of the program.                                               *)
(***************************************************************************)
VARIABLES
  logger,          \* "none": NewLogger not called yet; "ok": it returned a Logger; "nil": it returned nil
  newErr,          \* the error NewLogger returned (TRUE: non-nil)
  newArgs,         \* the arguments NewLogger was called with
  level,           \* Logger.level
  async,           \* Logger.async
  headerSessions,  \* Logger.headerSessions
  outsArr,         \* the backing array of Logger.outs
  outsLen,         \* len(Logger.outs)
  mu,              \* Logger.mu: 0 when free, else the goroutine that holds it
  crashed,         \* a goroutine panicked and the program ended
  gpc,             \* the position of each calling goroutine
  gloc,            \* its locals
  gcount,          \* the emit calls it has made
  written,         \* per IOutput, the Write calls it received, in order
  nCmds,           \* AddOutput / RemoveOutput calls made
  nSets,           \* SetLevel calls made
  rejected,        \* the emit calls that returned at the level test, each <<goroutine, number>>
  chMade,          \* chOut and chCmd exist
  chOut,           \* the items buffered in Logger.chOut
  chCmd,           \* the commands buffered in Logger.chCmd
  chans,           \* the per-sink queues made so far: buffer, closed, writer
  dpc,             \* the position of copyRoutine ("none": not started)
  dloc,            \* its locals
  tpc,             \* the position of each outputRoutine, by its queue
  titem,           \* the item it holds
  tlen,            \* the len(out.chIn) it read for that item (-1: none)
  owed,            \* <<goroutine, number, queue>>: a Warn-or-above item the dispatcher took while the queue's entry was registered, not yet passed to Write by the queue's task
  reg,             \* per IOutput, what the completed AddOutput/RemoveOutput calls settle: "in", "out" or "open"
  listKept,        \* every AddOutput so far appended, every RemoveOutput of a once-registered sink so far kept the others in order
  levelOK,         \* every level test so far admitted the emit exactly when its level was at least the threshold
  fanOK,           \* every synchronous write that returned had called Write once per entry of l.outs, in order
  removeOK,        \* every RemoveOutput(w) so far returned normally and removed exactly the first entry of w
  rw,              \* "none": NewRotateWriter not called yet; "ok": it returned a RotateWriter; "nil": it returned nil
  rwSt,            \* the RotateWriter: rotateMode, rotateSize, writedSize, suffix, rotateFlag, fp
  fsDir,           \* the directory: path -> inode
  fsInodes,        \* the files: data (the messages written, each <<call, length>>) and modification time
  now,             \* the last value time.Now() returned
  nWrites,         \* Write calls made on the RotateWriter
  nFaults,         \* renames and opens that failed
  sizeSet,         \* SetRotateSize was called
  rotLog,          \* the doRotate calls made, in order
  wlog,            \* the Write calls made, in order
  slot,            \* the *os.File variable given to AddRedirect: "orig" or "pipe" (the pipe's write end)
  rd,              \* the Redirector: st is "none" before AddRedirect, "nil" when it returned nil, else "on" with its level and old
  pipeBuf,         \* the lines in the pipe, not yet read
  pipeOpen,        \* the write end of the pipe is open
  spc,             \* the position of the scanning goroutine
  snext,           \* the number of the Logger call it is about to make
  semit,           \* what each of its Logger calls carries: a line, or 0 for the completion message
  cpc,             \* the position of the CancelRedirect call
  slines,          \* the lines written through the slot, in order
  atCancel,        \* the lines in the pipe when CancelRedirect closed it
  closedCmd,       \* chCmd is closed
  closedOut,       \* chOut is closed
  dspun,           \* copyRoutine found chCmd closed and went round its loop again
  jrec,            \* the OutputJson call whose bytes are recorded: level, the caller's fields, the bytes passed to write
  tagged,          \* the calls of SetLevelTag so far: per level the name last given (none: << >>) and whether the Logger existed then
  mustFlush,       \* <<goroutine, number, writer>>: a Warn-or-above item that was queued for the writer when Close was called
  rd2,             \* the Redirector of a second AddRedirect on the same slot, and the position of its CancelRedirect
  named,           \* the calls of the emitters named after a level: <<goroutine, number of its emit, name>>
  composed,        \* the emit whose bytes are recorded: level, message, the bytes passed to write
  fatal,           \* the call of Fatal or Panic: caller, kind, number of its message, the writers registered when it was called, position
  multiOK          \* every synchronous write that returned had written to the sinks settled "in" and to none settled "out"

cfgVars == <<logger, newErr, newArgs, level, async, headerSessions>>
outsVars == <<outsArr, outsLen>>
asyncVars == <<chMade, chOut, chCmd, chans, dpc, dloc, tpc, titem, tlen, owed>>
countVars == <<nCmds, nSets, rejected>>
ghostVars == <<reg, listKept, levelOK, fanOK, multiOK>>
fileVars == <<rw, rwSt, fsDir, fsInodes, now, nWrites, nFaults, sizeSet, rotLog, wlog>>
redirVars == <<slot, rd, pipeBuf, pipeOpen, spc, snext, semit, cpc, slines, atCancel>>
closeVars == <<closedCmd, closedOut, dspun, mustFlush>>
tagVars == <<levels, tagged>>
extVars == <<named, rd2, jrec, tagVars>>
endVars == <<closeVars, fatal, composed, extVars>>
restVars == <<removeOK, fileVars, redirVars, endVars>>
coreVars == <<cfgVars, outsVars, mu, crashed, gpc, gloc, gcount, written,
              countVars, asyncVars, ghostVars>>
vars == <<cfgVars, outsVars, mu, crashed, gpc, gloc, gcount, written,
          countVars, asyncVars, ghostVars, restVars>>

\* an outWriter: chIn is 0 (nil) on a synchronous Logger
OutWriter(w, c) == [writer |-> w, chIn |-> c]

\* l.outs as a list
Outs == Slice(outsArr, 1, outsLen)

\* the writers of a sink list, in order
WritersOf(list) == [i \in 1 .. Len(list) |-> list[i].writer]

Range(seq) == {seq[i] : i \in 1 .. Len(seq)}

\* how many entries of a sink list hold writer w
CountOf(list, w) == Cardinality({i \in 1 .. Len(list) : list[i].writer = w})

NoLoc == [level |-> 0, T |-> 0, n |-> 0, w |-> 0, rng |-> << >>, idx |-> 0,
          wrote |-> << >>, must |-> {}, mustNot |-> {}]

NoItem == [g |-> 0, n |-> 0, level |-> 0]

\* the nil *outItem a receive from the closed chOut yields
NilItem == [g |-> 0, n |-> -1, level |-> 0]

NoFatal == [g |-> 0, kind |-> "none", n |-> 0, must |-> {}, pc |-> "none"]

NoComposed == [level |-> 0, s |-> << >>, line |-> << >>, lookups |-> 0, done |-> FALSE,
               env |-> CallEnv]

NoSecond == [st |-> "none", old |-> "orig", g |-> 0, pc |-> "none", next |-> 0,
             after1 |-> FALSE, level |-> 0, open |-> FALSE, buf |-> << >>,
             spc |-> "none", snext |-> 0, emit |-> << >>]

NoJson == [level |-> 0, items |-> << >>, buf |-> << >>, wrote |-> FALSE, done |-> FALSE]

NoTag == [set |-> FALSE, name |-> << >>, built |-> FALSE]

CloseInit ==
  /\ jrec = NoJson
  /\ levels = DefaultTags
  /\ tagged = [lv \in 0 .. 4 |-> NoTag]
  /\ fatal = NoFatal
  /\ composed = NoComposed
  /\ rd2 = NoSecond
  /\ named = {}
  /\ closedCmd = FALSE
  /\ closedOut = FALSE
  /\ dspun = FALSE
  /\ mustFlush = {}

NoArgs == [out |-> 0, level |-> 0, fmtStr |-> << >>, async |-> FALSE]

NEmits == LET RECURSIVE Sum(_)
              Sum(g) == IF g = 0 THEN 0 ELSE gcount[g] + Sum(g - 1)
          IN Sum(NumG)

\* the process runs: no panic, no os.Exit
Running == logger = "ok" /\ ~crashed /\ fatal.pc # "over"

(***************************************************************************)
(* NewLogger.                                                              *)
(***************************************************************************)
\* format strings given to NewLogger
FmtLevel == <<"[","%","(">> \o KwLevelno \o <<")","]"," ">>
FmtBogus == <<"%","(","b","o","g","u","s",")">>
FmtBogusLate == <<"%","(">> \o KwAsctime \o <<")"," ","%","(","b","o","g","u","s",":">>
                \o KwLevelno \o <<")","x">>
FmtNoKeyword == <<"a","%","(",":","t","s",")">>
FormatsNew == {FmtLevel, FmtBogus, FmtBogusLate, FmtNoKeyword}

\* the pieces format strings are built of: literal text, placeholders with a
\* recognized keyword, placeholders with an unrecognized one, and text that
\* is no placeholder (%( never closed, %() without a keyword, a character
\* outside [\w\:] between the parentheses)
PcText == <<"x", " ">>
PcLevelno == <<"%", "(">> \o KwLevelno \o <<")">>
PcAsctimeAs == <<"%", "(">> \o KwAsctime \o <<":", "t", "s", ")">>
PcBogus == FmtBogus
PcBogusAs == <<"%", "(", "b", "o", "g", "u", "s", ":">> \o KwLevelno \o <<")">>
PcNoKeyword == <<"%", "(", ":", "t", "s", ")">>
PcUnclosed == <<"%", "(">> \o KwLevelno
PcEmpty == <<"%", "(", ")">>
PcDash == <<"%", "(", "b", "o", "-", "g", "u", "s", ")">>
UnknownPieces == {PcBogus, PcBogusAs, PcNoKeyword}
Pieces == {PcText, PcLevelno, PcAsctimeAs, PcUnclosed, PcEmpty, PcDash} \cup UnknownPieces

PieceSeqs == UNION {[1 .. n -> Pieces] : n \in 0 .. MaxPieces}

RECURSIVE Concat(_)
Concat(ps) == IF ps = << >> THEN << >> ELSE Head(ps) \o Concat(Tail(ps))

\* the command NewLogger's AddOutput leaves in chCmd
AddCmd(w) == [cmd |-> 0, param |-> w]
RemoveCmd(w) == [cmd |-> 1, param |-> w]

NewLogger(out, lv, fmtStr, as) ==
  /\ logger = "none"
  /\ newArgs' = [out |-> out, level |-> lv, fmtStr |-> fmtStr, async |-> as]
  /\ LET r == setHeaderFormat(fmtStr) IN
     IF r.err
     THEN /\ logger' = "nil"
          /\ newErr' = TRUE
          /\ UNCHANGED <<level, async, headerSessions, outsVars, asyncVars>>
     ELSE /\ logger' = "ok"
          /\ newErr' = FALSE
          /\ level' = lv
          /\ async' = as
          /\ headerSessions' = r.sessions
          /\ IF as
             THEN /\ chMade' = TRUE
                  /\ dpc' = "select"
                  /\ chCmd' = << AddCmd(out) >>
                  /\ UNCHANGED <<outsVars, chOut, chans, dloc, tpc, titem, tlen, owed>>
             ELSE /\ outsArr' = << OutWriter(out, 0) >>
                  /\ outsLen' = 1
                  /\ UNCHANGED asyncVars
  /\ reg' = IF logger' = "ok" /\ ~async' THEN [reg EXCEPT ![out] = "in"] ELSE reg
  /\ UNCHANGED <<mu, crashed, gpc, gloc, gcount, written, countVars, listKept, levelOK, fanOK, multiOK, restVars>>

(***************************************************************************)
(* The sink list: addOutput and removeOutput.                              *)
(***************************************************************************)
\* l.outs = append(l.outs, out): in place when the backing array has room
addOutput(arr, len, out) ==
  [arr |-> IF len < Len(arr) THEN [arr EXCEPT ![len + 1] = out] ELSE Append(arr, out),
   len |-> len + 1]

\* (a removal that fills the hole with the last entry)
CutAt_SwapLast(arr, len, i) ==
  [k \in 1 .. Len(arr) |-> IF k = i /\ i < len THEN arr[len] ELSE arr[k]]

\* append(l.outs[:i], l.outs[i+1:]...) for the entry at position i <= len:
\* the entries after it move down one place in the same backing array, whose
\* last used place keeps its old value
CutAt(arr, len, i) ==
  [k \in 1 .. Len(arr) |-> IF k >= i /\ k < len THEN arr[k + 1] ELSE arr[k]]

\* the loop of removeOutput from position i on.  The range was evaluated once:
\* it runs over the first n places of the backing array, whatever l.outs has
\* become, and reads each place when it gets there.  l.outs[i+1:] panics when
\* the place is beyond len(l.outs).  closed: the queues closed so far;
\* closing one twice panics.
RECURSIVE RemoveLoop(_, _, _, _, _, _, _)
RemoveLoop(arr, len, w, i, n, as, closed) ==
  IF i > n
  THEN [arr |-> arr, len |-> len, panic |-> FALSE, closed |-> closed]
  ELSE LET v == arr[i] IN
       IF v.writer = w
       THEN IF i > len
            THEN [arr |-> arr, len |-> len, panic |-> TRUE, closed |-> closed]
            ELSE IF as /\ v.chIn \in closed
            THEN [arr |-> CutAt(arr, len, i), len |-> len - 1, panic |-> TRUE,
                  closed |-> closed]
            ELSE RemoveLoop(CutAt(arr, len, i), len - 1, w, i + 1, n, as,
                            IF as THEN closed \cup {v.chIn} ELSE closed)
       ELSE RemoveLoop(arr, len, w, i + 1, n, as, closed)

\* removeOutput(w) on the sink list (arr, len); closed0: the queues already closed
removeOutput(arr, len, w, as, closed0) == RemoveLoop(arr, len, w, 1, len, as, closed0)

(***************************************************************************)
(* Emit: Output, Outputf and the per-level emitters, down to write.        *)
(***************************************************************************)
\* (a level test that also turns away the threshold's own level)
Admit_Strict(L, T) == L > T

\* the level test of Output and Outputf
Admit(L, T) == L >= T

\* (a Lock that never waits)
CanLock_NoMutex(g) == TRUE

\* sync.Mutex.Lock returns
CanLock(g) == mu = 0

\* (a loop that stops one entry early)
FanDone_SkipLast(idx, rng) == idx >= Len(rng)

\* the range loop of write is over
FanDone(idx, rng) == idx > Len(rng)

\* the goroutines inside an AddOutput or RemoveOutput call on w
OpsOn(w) == {g \in Goroutines :
               gpc[g] \in {"addlock", "addbody", "remlock", "rembody"} /\ gloc[g].w = w}

EmitCall(g, L) ==
  /\ Running
  /\ gpc[g] = "idle"
  /\ gcount' = [gcount EXCEPT ![g] = @ + 1]
  /\ IF Admit(L, level)
     THEN /\ gpc' = [gpc EXCEPT ![g] = IF async THEN "send" ELSE "lock"]
          /\ gloc' = [gloc EXCEPT ![g] = [NoLoc EXCEPT !.level = L, !.T = level,
                                                       !.n = gcount[g] + 1]]
          /\ UNCHANGED rejected
     ELSE /\ rejected' = rejected \cup {<<g, gcount[g] + 1>>}
          /\ UNCHANGED <<gpc, gloc>>
  /\ levelOK' = (levelOK /\ (Admit(L, level) <=> ~(L < level)))
  /\ UNCHANGED <<cfgVars, outsVars, mu, crashed, written, nCmds, nSets,
                 asyncVars, reg, listKept, fanOK, multiOK, restVars>>

\* write, synchronous: l.mu.Lock() and the evaluation of the range
EmitLock(g) ==
  /\ Running
  /\ gpc[g] = "lock"
  /\ CanLock(g)
  /\ mu' = g
  /\ gpc' = [gpc EXCEPT ![g] = "fan"]
  /\ gloc' = [gloc EXCEPT ![g].rng = Outs, ![g].idx = 1,
                          ![g].must = {w \in Sinks : reg[w] = "in"},
                          ![g].mustNot = {w \in Sinks : reg[w] = "out"}]
  /\ UNCHANGED <<cfgVars, outsVars, crashed, gcount, written, countVars,
                 asyncVars, ghostVars, restVars>>

Item(g) == [g |-> g, n |-> gloc[g].n, level |-> gloc[g].level]

\* w.writer.Write(msg, level) is called
SinkCall(g) ==
  /\ Running
  /\ gpc[g] = "fan"
  /\ ~FanDone(gloc[g].idx, gloc[g].rng)
  /\ LET w == gloc[g].rng[gloc[g].idx].writer IN
     /\ written' = [written EXCEPT ![w] = Append(@, Item(g))]
     /\ gloc' = [gloc EXCEPT ![g].wrote = Append(@, w)]
  /\ gpc' = [gpc EXCEPT ![g] = "inwrite"]
  /\ UNCHANGED <<cfgVars, outsVars, mu, crashed, gcount, countVars,
                 asyncVars, ghostVars, restVars>>

\* it returns
SinkRet(g) ==
  /\ Running
  /\ gpc[g] = "inwrite"
  /\ gpc' = [gpc EXCEPT ![g] = "fan"]
  /\ gloc' = [gloc EXCEPT ![g].idx = @ + 1]
  /\ UNCHANGED <<cfgVars, outsVars, mu, crashed, gcount, written, countVars,
                 asyncVars, ghostVars, restVars>>

\* the deferred l.mu.Unlock() and the return
EmitUnlock(g) ==
  /\ Running
  /\ gpc[g] = "fan"
  /\ FanDone(gloc[g].idx, gloc[g].rng)
  /\ mu' = 0
  /\ gpc' = [gpc EXCEPT ![g] = "idle"]
  /\ gloc' = [gloc EXCEPT ![g] = NoLoc]
  /\ fanOK' = (fanOK /\ gloc[g].wrote = WritersOf(Outs))
  /\ multiOK' = (multiOK /\ gloc[g].must \subseteq Range(gloc[g].wrote)
                         /\ gloc[g].mustNot \cap Range(gloc[g].wrote) = {})
  /\ UNCHANGED <<cfgVars, outsVars, crashed, gcount, written, countVars,
                 asyncVars, reg, listKept, levelOK, restVars>>

\* SetLevel: an unlocked store
SetLevel(g, T) ==
  /\ Running
  /\ gpc[g] = "idle"
  /\ level' = T
  /\ nSets' = nSets + 1
  /\ UNCHANGED <<logger, newErr, newArgs, async, headerSessions, outsVars, mu, crashed,
                 gpc, gloc, gcount, written, nCmds, rejected, asyncVars, ghostVars, restVars>>

(***************************************************************************)
(* AddOutput and RemoveOutput on a synchronous Logger.                     *)
(***************************************************************************)
AddCall(g, w) ==
  /\ Running
  /\ gpc[g] = "idle"
  /\ nCmds' = nCmds + 1
  /\ gpc' = [gpc EXCEPT ![g] = IF async THEN "addsend" ELSE "addlock"]
  /\ gloc' = [gloc EXCEPT ![g] = [NoLoc EXCEPT !.w = w]]
  /\ reg' = IF async THEN reg ELSE [reg EXCEPT ![w] = "open"]
  /\ UNCHANGED <<cfgVars, outsVars, mu, crashed, gcount, written, nSets,
                 rejected, asyncVars, listKept, levelOK, fanOK, multiOK, restVars>>

AddLock(g) ==
  /\ Running
  /\ gpc[g] = "addlock"
  /\ CanLock(g)
  /\ mu' = g
  /\ gpc' = [gpc EXCEPT ![g] = "addbody"]
  /\ UNCHANGED <<cfgVars, outsVars, crashed, gloc, gcount, written, countVars,
                 asyncVars, ghostVars, restVars>>

\* l.addOutput(w), the deferred Unlock and the return
AddBody(g) ==
  /\ Running
  /\ gpc[g] = "addbody"
  /\ LET w == gloc[g].w
         r == addOutput(outsArr, outsLen, OutWriter(w, 0))
     IN /\ outsArr' = r.arr
        /\ outsLen' = r.len
        /\ reg' = [reg EXCEPT ![w] = IF OpsOn(w) = {g} THEN "in" ELSE "open"]
        /\ listKept' = (listKept /\ Slice(r.arr, 1, r.len) = Append(Outs, OutWriter(w, 0)))
  /\ mu' = 0
  /\ gpc' = [gpc EXCEPT ![g] = "idle"]
  /\ gloc' = [gloc EXCEPT ![g] = NoLoc]
  /\ UNCHANGED <<cfgVars, crashed, gcount, written, countVars, asyncVars, levelOK, fanOK, multiOK, restVars>>

RemoveCall(g, w) ==
  /\ Running
  /\ gpc[g] = "idle"
  /\ nCmds' = nCmds + 1
  /\ gpc' = [gpc EXCEPT ![g] = IF async THEN "remsend" ELSE "remlock"]
  /\ gloc' = [gloc EXCEPT ![g] = [NoLoc EXCEPT !.w = w]]
  /\ reg' = IF async THEN reg ELSE [reg EXCEPT ![w] = "open"]
  /\ UNCHANGED <<cfgVars, outsVars, mu, crashed, gcount, written, nSets,
                 rejected, asyncVars, listKept, levelOK, fanOK, multiOK, restVars>>

RemoveLock(g) ==
  /\ Running
  /\ gpc[g] = "remlock"
  /\ CanLock(g)
  /\ mu' = g
  /\ gpc' = [gpc EXCEPT ![g] = "rembody"]
  /\ UNCHANGED <<cfgVars, outsVars, crashed, gloc, gcount, written, countVars,
                 asyncVars, ghostVars, restVars>>

\* l.removeOutput(w), the deferred Unlock and the return, or the panic
\* the first position of writer w in a sink list (0: none)
FirstOf(list, w) ==
  IF \E i \in 1 .. Len(list) : list[i].writer = w
  THEN CHOOSE i \in 1 .. Len(list) :
         /\ list[i].writer = w
         /\ \A j \in 1 .. (i - 1) : list[j].writer # w
  ELSE 0

\* a sink list without its first entry of writer w
RemoveFirst(list, w) ==
  LET k == FirstOf(list, w) IN
  IF k = 0 THEN list
  ELSE [i \in 1 .. (Len(list) - 1) |-> IF i < k THEN list[i] ELSE list[i + 1]]

RemoveBody(g) ==
  /\ Running
  /\ gpc[g] = "rembody"
  /\ LET w == gloc[g].w
         r == removeOutput(outsArr, outsLen, w, FALSE, {})
     IN /\ outsArr' = r.arr
        /\ outsLen' = r.len
        /\ crashed' = r.panic
        /\ reg' = [reg EXCEPT ![w] = IF OpsOn(w) = {g} /\ CountOf(Outs, w) <= 1
                                     THEN "out" ELSE "open"]
        /\ listKept' = (listKept /\
                        (CountOf(Outs, w) = 1 =>
                           /\ ~r.panic
                           /\ Slice(r.arr, 1, r.len)
                                = SelectSeq(Outs, LAMBDA e : e.writer # w)))
        /\ removeOK' = (removeOK /\ ~r.panic
                        /\ Slice(r.arr, 1, r.len) = RemoveFirst(Outs, w))
  /\ mu' = 0
  /\ gpc' = [gpc EXCEPT ![g] = "idle"]
  /\ gloc' = [gloc EXCEPT ![g] = NoLoc]
  /\ UNCHANGED <<cfgVars, gcount, written, countVars, asyncVars, levelOK, fanOK, multiOK, fileVars, redirVars, endVars>>

(***************************************************************************)
(* The asynchronous Logger: write and AddOutput/RemoveOutput send, the     *)
(* dispatcher copyRoutine, and one outputRoutine per queue.                *)
(***************************************************************************)
\* (a send that never waits for room)
CanSend_Unbounded(g) == TRUE

\* l.chOut <- item proceeds: the buffer has room
CanSend(g) == Len(chOut) < AsyncBuffer

\* write, asynchronous: l.chOut <- &outItem{msg, level}
EmitSend(g) ==
  /\ Running
  /\ gpc[g] = "send"
  /\ IF closedOut
     THEN /\ crashed' = TRUE
          /\ UNCHANGED <<chOut, gpc, gloc>>
     ELSE /\ CanSend(g)
          /\ chOut' = Append(chOut, Item(g))
          /\ gpc' = [gpc EXCEPT ![g] = "idle"]
          /\ gloc' = [gloc EXCEPT ![g] = NoLoc]
          /\ UNCHANGED crashed
  /\ UNCHANGED <<cfgVars, outsVars, mu, gcount, written, countVars,
                 chMade, chCmd, chans, dpc, dloc, tpc, titem, tlen, owed, ghostVars, restVars>>

\* AddOutput and RemoveOutput, asynchronous: l.chCmd <- &cmdItem{cmd, param}
CmdSend(g) ==
  /\ Running
  /\ gpc[g] \in {"addsend", "remsend"}
  /\ IF closedCmd
     THEN /\ crashed' = TRUE
          /\ UNCHANGED <<chCmd, gpc, gloc>>
     ELSE /\ Len(chCmd) < CmdBuffer
          /\ chCmd' = Append(chCmd, IF gpc[g] = "addsend" THEN AddCmd(gloc[g].w)
                                                           ELSE RemoveCmd(gloc[g].w))
          /\ gpc' = [gpc EXCEPT ![g] = "idle"]
          /\ gloc' = [gloc EXCEPT ![g] = NoLoc]
          /\ UNCHANGED crashed
  /\ UNCHANGED <<cfgVars, outsVars, mu, gcount, written, countVars,
                 chMade, chOut, chans, dpc, dloc, tpc, titem, tlen, owed, ghostVars, restVars>>

\* copyRoutine, case item := <-l.chOut: the item is taken and the range over
\* l.outs is evaluated
DispTake ==
  /\ Running
  /\ dpc = "select"
  /\ chOut # << >> \/ closedOut
  /\ LET item == IF chOut # << >> THEN Head(chOut) ELSE NilItem IN
     /\ chOut' = IF chOut # << >> THEN Tail(chOut) ELSE chOut
     /\ dloc' = [item |-> item, rng |-> Outs, idx |-> 1]
     /\ owed' = owed \cup
          (IF item # NilItem /\ item.level >= LevelWarn
           THEN {<<item.g, item.n, Outs[i].chIn>> : i \in 1 .. Len(Outs)}
           ELSE {})
  /\ dpc' = "fan"
  /\ UNCHANGED <<cfgVars, outsVars, mu, crashed, gpc, gloc, gcount, written,
                 countVars, chMade, chCmd, chans, tpc, titem, tlen, ghostVars, restVars>>

\* out.chIn <- item: waits for room, panics on a closed queue
DispForward ==
  /\ Running
  /\ dpc = "fan"
  /\ ~FanDone(dloc.idx, dloc.rng)
  /\ LET c == dloc.rng[dloc.idx].chIn IN
     IF chans[c].closed
     THEN /\ crashed' = TRUE
          /\ UNCHANGED <<chans, dloc>>
     ELSE /\ Len(chans[c].buf) < OutputBuffer
          /\ chans' = [chans EXCEPT ![c].buf = Append(@, dloc.item)]
          /\ dloc' = [dloc EXCEPT !.idx = @ + 1]
          /\ UNCHANGED crashed
  /\ UNCHANGED <<cfgVars, outsVars, mu, gpc, gloc, gcount, written, countVars,
                 chMade, chOut, chCmd, dpc, tpc, titem, tlen, owed, ghostVars, restVars>>

\* the range is over: back to the select
DispLoop ==
  /\ Running
  /\ dpc = "fan"
  /\ FanDone(dloc.idx, dloc.rng)
  /\ dpc' = "select"
  /\ dloc' = [item |-> NoItem, rng |-> << >>, idx |-> 0]
  /\ UNCHANGED <<cfgVars, outsVars, mu, crashed, gpc, gloc, gcount, written,
                 countVars, chMade, chOut, chCmd, chans, tpc, titem, tlen, owed,
                 ghostVars, restVars>>

\* the queues that are closed
ClosedQueues == {c \in 1 .. Len(chans) : chans[c].closed}

\* copyRoutine, case cmd := <-l.chCmd with cmd.cmd = 0: addOutput makes the
\* queue, starts its outputRoutine and appends the entry
DispAdd ==
  /\ Running
  /\ dpc = "select"
  /\ chCmd # << >>
  /\ Head(chCmd).cmd = 0
  /\ LET c == Len(chans) + 1
         r == addOutput(outsArr, outsLen, OutWriter(Head(chCmd).param, c))
     IN /\ chans' = Append(chans, [buf |-> << >>, closed |-> FALSE,
                                   writer |-> Head(chCmd).param])
        /\ tpc' = Append(tpc, "recv")
        /\ titem' = Append(titem, NoItem)
        /\ tlen' = Append(tlen, -1)
        /\ outsArr' = r.arr
        /\ outsLen' = r.len
  /\ chCmd' = Tail(chCmd)
  /\ UNCHANGED <<cfgVars, mu, crashed, gpc, gloc, gcount, written, countVars,
                 chMade, chOut, dpc, dloc, owed, ghostVars, restVars>>

\* copyRoutine, case cmd := <-l.chCmd with cmd.cmd = 1: removeOutput, which
\* closes the queue of each entry it removes, or panics
DispRemove ==
  /\ Running
  /\ dpc = "select"
  /\ chCmd # << >>
  /\ Head(chCmd).cmd = 1
  /\ LET r == removeOutput(outsArr, outsLen, Head(chCmd).param, TRUE, ClosedQueues)
     IN /\ outsArr' = r.arr
        /\ outsLen' = r.len
        /\ crashed' = r.panic
        /\ chans' = [c \in 1 .. Len(chans) |->
                       [chans[c] EXCEPT !.closed = (c \in r.closed)]]
        /\ removeOK' = (removeOK /\ ~r.panic
                        /\ Slice(r.arr, 1, r.len) = RemoveFirst(Outs, Head(chCmd).param))
  /\ chCmd' = Tail(chCmd)
  /\ UNCHANGED <<cfgVars, mu, gpc, gloc, gcount, written, countVars,
                 chMade, chOut, dpc, dloc, tpc, titem, tlen, owed, ghostVars, fileVars, redirVars, endVars>>

\* copyRoutine, case cmd, ok := <-l.chCmd with chCmd closed: the break leaves
\* the select, and the for loop goes round again
DispCmdClosed ==
  /\ Running
  /\ dpc = "select"
  /\ chCmd = << >>
  /\ closedCmd
  /\ dspun' = TRUE
  /\ UNCHANGED <<closedCmd, closedOut, mustFlush, coreVars, removeOK, fileVars, redirVars, fatal, composed, extVars>>

\* the Warn-or-above items queued for a writer: in chOut or held by
\* copyRoutine for the entries of l.outs, in a per-sink queue or taken from it
\* and not yet tested
QueuedFor ==
  LET warn(it) == it # NilItem /\ it # NoItem /\ it.level >= LevelWarn IN
  {<<it.g, it.n, Outs[i].writer>> :
     it \in {x \in Range(chOut) : warn(x)}, i \in 1 .. Len(Outs)}
  \cup (IF dpc = "fan" /\ warn(dloc.item)
        THEN {<<dloc.item.g, dloc.item.n, dloc.rng[i].writer>> :
                i \in dloc.idx .. Len(dloc.rng)}
        ELSE {})
  \cup UNION {{<<it.g, it.n, chans[c].writer>> :
                 it \in {x \in Range(chans[c].buf)
                            \cup (IF tpc[c] = "check" THEN {titem[c]} ELSE {}) : warn(x)}} :
              c \in 1 .. Len(chans)}

\* Close() is called on an asynchronous Logger: close(l.chCmd)
CloseCall(g) ==
  /\ Running
  /\ async
  /\ gpc[g] = "idle"
  /\ ~closedCmd
  /\ closedCmd' = TRUE
  /\ mustFlush' = QueuedFor
  /\ gpc' = [gpc EXCEPT ![g] = "closeout"]
  /\ UNCHANGED <<closedOut, dspun, cfgVars, outsVars, mu, crashed, gloc, gcount, written,
                 countVars, asyncVars, ghostVars, removeOK, fileVars, redirVars, fatal, composed, extVars>>

\* close(l.chOut)
CloseOut(g) ==
  /\ Running
  /\ gpc[g] = "closeout"
  /\ closedOut' = TRUE
  /\ gpc' = [gpc EXCEPT ![g] = "closeins"]
  /\ UNCHANGED <<closedCmd, dspun, mustFlush, cfgVars, outsVars, mu, crashed, gloc, gcount,
                 written, countVars, asyncVars, ghostVars, removeOK, fileVars, redirVars, fatal, composed, extVars>>

\* for _, v := range l.outs { close(v.chIn) }, a panic on a queue that is
\* closed already
CloseIns(g) ==
  /\ Running
  /\ gpc[g] = "closeins"
  /\ LET cs == {Outs[i].chIn : i \in 1 .. Len(Outs)} IN
     /\ crashed' = (\E c \in cs : chans[c].closed)
     /\ chans' = [c \in 1 .. Len(chans) |->
                    [chans[c] EXCEPT !.closed = (@ \/ c \in cs)]]
  /\ gpc' = [gpc EXCEPT ![g] = "idle"]
  /\ UNCHANGED <<closeVars, cfgVars, outsVars, mu, gloc, gcount, written, countVars,
                 chMade, chOut, chCmd, dpc, dloc, tpc, titem, tlen, owed,
                 ghostVars, removeOK, fileVars, redirVars, fatal, composed, extVars>>

\* (a policy that drops at the threshold itself)
Drop_AtThreshold(len, lv) ==
  \/ len >= (OutputBuffer * 3) \div 5 /\ lv <= LevelDebug
  \/ len >= (OutputBuffer * 4) \div 5 /\ lv <= LevelInfo

\* the test of outputRoutine on len(out.chIn) and item.level
Drop(len, lv) ==
  \/ len > (OutputBuffer * 3) \div 5 /\ lv <= LevelDebug
  \/ len > (OutputBuffer * 4) \div 5 /\ lv <= LevelInfo

\* outputRoutine: item, ok := <-out.chIn, which waits on an open empty queue
\* and breaks on a closed one once it is drained
TaskRecv(c) ==
  /\ Running
  /\ c \in 1 .. Len(chans)
  /\ tpc[c] = "recv"
  /\ IF chans[c].buf # << >>
     THEN /\ titem' = [titem EXCEPT ![c] = Head(chans[c].buf)]
          /\ chans' = [chans EXCEPT ![c].buf = Tail(@)]
          /\ tpc' = [tpc EXCEPT ![c] = "check"]
     ELSE /\ chans[c].closed
          /\ titem' = [titem EXCEPT ![c] = NoItem]
          /\ tpc' = [tpc EXCEPT ![c] = "done"]
          /\ UNCHANGED chans
  /\ tlen' = [tlen EXCEPT ![c] = -1]
  /\ UNCHANGED <<cfgVars, outsVars, mu, crashed, gpc, gloc, gcount, written,
                 countVars, chMade, chOut, chCmd, dpc, dloc, owed, ghostVars, restVars>>

\* the test, then either the continue or the call of out.writer.Write
TaskCheck(c) ==
  /\ Running
  /\ c \in 1 .. Len(chans)
  /\ tpc[c] = "check"
  /\ IF titem[c] = NilItem
     THEN /\ crashed' = TRUE
          /\ UNCHANGED <<tlen, tpc, written, owed>>
     ELSE /\ tlen' = [tlen EXCEPT ![c] = Len(chans[c].buf)]
          /\ UNCHANGED crashed
          /\ IF Drop(Len(chans[c].buf), titem[c].level)
             THEN /\ tpc' = [tpc EXCEPT ![c] = "recv"]
                  /\ UNCHANGED <<written, owed>>
             ELSE /\ tpc' = [tpc EXCEPT ![c] = "inwrite"]
                  /\ written' = [written EXCEPT ![chans[c].writer] = Append(@, titem[c])]
                  /\ owed' = owed \ {<<titem[c].g, titem[c].n, c>>}
  /\ UNCHANGED <<cfgVars, outsVars, mu, gpc, gloc, gcount,
                 countVars, chMade, chOut, chCmd, chans, dpc, dloc, titem, ghostVars, restVars>>

\* Write returns
TaskRet(c) ==
  /\ Running
  /\ c \in 1 .. Len(chans)
  /\ tpc[c] = "inwrite"
  /\ tpc' = [tpc EXCEPT ![c] = "recv"]
  /\ titem' = [titem EXCEPT ![c] = NoItem]
  /\ tlen' = [tlen EXCEPT ![c] = -1]
  /\ UNCHANGED <<cfgVars, outsVars, mu, crashed, gpc, gloc, gcount, written,
                 countVars, chMade, chOut, chCmd, chans, dpc, dloc, owed, ghostVars, restVars>>

\* the queues made in one run
Queues == 1 .. (MaxAsyncCmds + 1)

(***************************************************************************)
(* The synchronous Logger.                                                 *)
(***************************************************************************)
(* AddRedirect, its scanning goroutine, and CancelRedirect.  A line is     *)
(* its number and whether it is longer than a bufio.Scanner token may be.  *)
(***************************************************************************)
NoCancel == [g |-> 0, pc |-> "none", next |-> 0]
NoRedirector == [st |-> "none", level |-> 0, old |-> "orig"]

\* AddRedirect(file, level, tag): os.Pipe(), *file = pw, the goroutine, the Redirector
AddRedirect(g, lv, pipeFails) ==
  /\ Running
  /\ gpc[g] = "idle"
  /\ rd.st = "none"
  /\ IF pipeFails
     THEN /\ rd' = [rd EXCEPT !.st = "nil"]
          /\ UNCHANGED <<slot, pipeOpen, spc>>
     ELSE /\ rd' = [st |-> "on", level |-> lv, old |-> slot]
          /\ slot' = "pipe"
          /\ pipeOpen' = TRUE
          /\ spc' = "scan"
  /\ UNCHANGED <<pipeBuf, snext, semit, cpc, slines, atCancel,
                 coreVars, removeOK, fileVars, endVars>>

\* a line is written through the slot
SlotWrite(long) ==
  /\ Running
  /\ \/ slot = "pipe" /\ pipeOpen
     \/ slot = "pipe2" /\ rd2.open
  /\ LET line == [id |-> Len(slines) + 1, long |-> long] IN
     /\ IF slot = "pipe"
        THEN pipeBuf' = Append(pipeBuf, line) /\ UNCHANGED rd2
        ELSE rd2' = [rd2 EXCEPT !.buf = Append(@, line)] /\ UNCHANGED pipeBuf
     /\ slines' = Append(slines, line)
  /\ UNCHANGED <<slot, rd, pipeOpen, spc, snext, semit, cpc, atCancel,
                 coreVars, removeOK, fileVars, closeVars, fatal, composed, named, jrec,
                 tagVars>>

\* scanner.Scan(): the next line; false on a line longer than a token may be
\* and at the end of the stream; it waits on an empty open pipe
ScanTake ==
  /\ Running
  /\ spc = "scan"
  /\ IF pipeBuf # << >>
     THEN IF Head(pipeBuf).long
          THEN /\ spc' = "final"
               /\ semit' = Append(semit, 0)
               /\ UNCHANGED pipeBuf
          ELSE /\ spc' = "call"
               /\ semit' = Append(semit, Head(pipeBuf).id)
               /\ pipeBuf' = Tail(pipeBuf)
     ELSE /\ ~pipeOpen
          /\ spc' = "final"
          /\ semit' = Append(semit, 0)
          /\ UNCHANGED pipeBuf
  /\ snext' = gcount[Scanner] + 1
  /\ UNCHANGED <<slot, rd, pipeOpen, cpc, slines, atCancel,
                 coreVars, removeOK, fileVars, endVars>>

\* l.Outputf(level, NormalDepth, "%s %s", tag, scanner.Text()) is called
ScanEmit ==
  /\ spc = "call"
  /\ gcount[Scanner] < snext
  /\ EmitCall(Scanner, rd.level)

\* it returned: the next Scan
ScanLoop ==
  /\ Running
  /\ spc = "call"
  /\ gcount[Scanner] = snext
  /\ gpc[Scanner] = "idle"
  /\ spc' = "scan"
  /\ UNCHANGED <<slot, rd, pipeBuf, pipeOpen, snext, semit, cpc, slines, atCancel,
                 coreVars, removeOK, fileVars, endVars>>

\* l.Warnf("read redirector pipe %s complete", tag) is called
ScanFinal ==
  /\ spc = "final"
  /\ gcount[Scanner] < snext
  /\ EmitCall(Scanner, LevelWarn)

\* it returned: the goroutine ends
ScanEnd ==
  /\ Running
  /\ spc = "final"
  /\ gcount[Scanner] = snext
  /\ gpc[Scanner] = "idle"
  /\ spc' = "done"
  /\ UNCHANGED <<slot, rd, pipeBuf, pipeOpen, snext, semit, cpc, slines, atCancel,
                 coreVars, removeOK, fileVars, endVars>>

\* CancelRedirect(r) is called
CancelStart(g) ==
  /\ Running
  /\ gpc[g] = "idle"
  /\ rd.st = "on"
  /\ cpc.pc = "none"
  /\ cpc' = [g |-> g, pc |-> "warn", next |-> gcount[g] + 1]
  /\ UNCHANGED <<slot, rd, pipeBuf, pipeOpen, spc, snext, semit, slines, atCancel,
                 coreVars, removeOK, fileVars, endVars>>

\* l.Warnf("close redirector pipe %s", r.tag) is called
CancelWarn(g) ==
  /\ cpc.pc = "warn"
  /\ cpc.g = g
  /\ gcount[g] < cpc.next
  /\ EmitCall(g, LevelWarn)

\* it returned: r.pipe.Close() and *r.oldAddr = r.old
CancelFinish(g) ==
  /\ Running
  /\ cpc.pc = "warn"
  /\ cpc.g = g
  /\ gcount[g] = cpc.next
  /\ gpc[g] = "idle"
  /\ pipeOpen' = FALSE
  /\ slot' = rd.old
  /\ atCancel' = pipeBuf
  /\ cpc' = [cpc EXCEPT !.pc = "done"]
  /\ UNCHANGED <<rd, pipeBuf, spc, snext, semit, slines,
                 coreVars, removeOK, fileVars, endVars>>

\* AddRedirect on the slot that is redirected already: old is the write end
\* of the first pipe, the slot holds the write end of a second pipe, and a
\* second goroutine scans that pipe
AddRedirectAgain(g, lv, pipeFails) ==
  /\ Running
  /\ gpc[g] = "idle"
  /\ rd.st = "on"
  /\ cpc.pc = "none"
  /\ rd2.st = "none"
  /\ IF pipeFails
     THEN /\ rd2' = [rd2 EXCEPT !.st = "nil"]
          /\ UNCHANGED slot
     ELSE /\ rd2' = [rd2 EXCEPT !.st = "on", !.old = slot, !.level = lv,
                                 !.open = TRUE, !.spc = "scan"]
          /\ slot' = "pipe2"
  /\ UNCHANGED <<rd, pipeBuf, pipeOpen, spc, snext, semit, cpc, slines, atCancel,
                 coreVars, removeOK, fileVars, closeVars, fatal, composed, named, jrec, tagVars>>

\* scanner.Scan() of the second goroutine
Scan2Take ==
  /\ Running
  /\ rd2.spc = "scan"
  /\ IF rd2.buf # << >>
     THEN IF Head(rd2.buf).long
          THEN rd2' = [rd2 EXCEPT !.spc = "final", !.emit = Append(@, 0),
                                  !.snext = gcount[Scanner2] + 1]
          ELSE rd2' = [rd2 EXCEPT !.spc = "call", !.emit = Append(@, Head(rd2.buf).id),
                                  !.buf = Tail(@), !.snext = gcount[Scanner2] + 1]
     ELSE /\ ~rd2.open
          /\ rd2' = [rd2 EXCEPT !.spc = "final", !.emit = Append(@, 0),
                                 !.snext = gcount[Scanner2] + 1]
  /\ UNCHANGED <<coreVars, removeOK, fileVars, redirVars, closeVars, fatal, composed,
                 named, jrec, tagVars>>

\* its l.Outputf(level, NormalDepth, "%s %s", tag, scanner.Text())
Scan2Emit ==
  /\ rd2.spc = "call"
  /\ gcount[Scanner2] < rd2.snext
  /\ EmitCall(Scanner2, rd2.level)

\* it returned: the next Scan
Scan2Loop ==
  /\ Running
  /\ rd2.spc = "call"
  /\ gcount[Scanner2] = rd2.snext
  /\ gpc[Scanner2] = "idle"
  /\ rd2' = [rd2 EXCEPT !.spc = "scan"]
  /\ UNCHANGED <<coreVars, removeOK, fileVars, redirVars, closeVars, fatal, composed,
                 named, jrec, tagVars>>

\* its l.Warnf("read redirector pipe %s complete", tag)
Scan2Final ==
  /\ rd2.spc = "final"
  /\ gcount[Scanner2] < rd2.snext
  /\ EmitCall(Scanner2, LevelWarn)

\* it returned: the second goroutine ends
Scan2End ==
  /\ Running
  /\ rd2.spc = "final"
  /\ gcount[Scanner2] = rd2.snext
  /\ gpc[Scanner2] = "idle"
  /\ rd2' = [rd2 EXCEPT !.spc = "done"]
  /\ UNCHANGED <<coreVars, removeOK, fileVars, redirVars, closeVars, fatal, composed,
                 named, jrec, tagVars>>

\* CancelRedirect(r) of the second Redirector is called
CancelAgainStart(g) ==
  /\ Running
  /\ gpc[g] = "idle"
  /\ rd2.st = "on"
  /\ rd2.pc = "none"
  /\ ~(cpc.pc = "warn" /\ cpc.g = g)
  /\ rd2' = [rd2 EXCEPT !.g = g, !.pc = "warn", !.next = gcount[g] + 1]
  /\ UNCHANGED <<coreVars, removeOK, fileVars, redirVars, closeVars, fatal, composed, named, jrec, tagVars>>

\* its l.Warnf("close redirector pipe %s", r.tag)
CancelAgainWarn(g) ==
  /\ rd2.pc = "warn"
  /\ rd2.g = g
  /\ gcount[g] < rd2.next
  /\ EmitCall(g, LevelWarn)

\* (every cancel puts the original stream back)
Restored_Original(r) == "orig"

\* *r.oldAddr = r.old
Restored(r) == r.old

\* it returned: r.pipe.Close() and *r.oldAddr = r.old
CancelAgainFinish(g) ==
  /\ Running
  /\ rd2.pc = "warn"
  /\ rd2.g = g
  /\ gcount[g] = rd2.next
  /\ gpc[g] = "idle"
  /\ slot' = Restored(rd2)
  /\ rd2' = [rd2 EXCEPT !.pc = "done", !.after1 = (cpc.pc = "done"), !.open = FALSE]
  /\ UNCHANGED <<rd, pipeBuf, pipeOpen, spc, snext, semit, cpc, slines, atCancel,
                 coreVars, removeOK, fileVars, closeVars, fatal, composed, named, jrec, tagVars>>

RedirInit ==
  /\ slot = "orig"
  /\ rd = NoRedirector
  /\ pipeBuf = << >>
  /\ pipeOpen = FALSE
  /\ spc = "none"
  /\ snext = 0
  /\ semit = << >>
  /\ cpc = NoCancel
  /\ slines = << >>
  /\ atCancel = << >>

(***************************************************************************)
(* The RotateWriter of file.go.  A time is a record of month, day of the   *)
(* month, hour of the day and microseconds; a path is a tuple.             *)
(***************************************************************************)
Times == [mon : 1 .. MaxMon, day : 1 .. MaxDay, hour : 0 .. MaxHour, us : {0}]
Time0 == [mon |-> 1, day |-> 1, hour |-> 0, us |-> 0]

\* a is not after b
TimeLE(a, b) ==
  \/ a.mon < b.mon
  \/ a.mon = b.mon /\ a.day < b.day
  \/ a.mon = b.mon /\ a.day = b.day /\ a.hour < b.hour
  \/ a.mon = b.mon /\ a.day = b.day /\ a.hour = b.hour /\ a.us <= b.us

\* t.Format(format_time_day), t.Format(format_time_hour), t.Format(format_time_size)
FormatDay(t) == <<t.mon, t.day>>
FormatHour(t) == <<t.mon, t.day, t.hour>>
FormatSize(t) == <<t.mon, t.day, t.hour, t.us>>

\* w.file, and w.file + "." + suffix
LivePath == <<0>>
ArchivePath(suffix) == suffix

\* (the size of a file found is taken for 0)
SizeOf_Zero(data) == 0

\* info.Size()
RECURSIVE SizeOf(_)
SizeOf(data) == IF data = << >> THEN 0 ELSE Head(data)[2] + SizeOf(Tail(data))

NoWriter == [rotateMode |-> RotateNone, rotateSize |-> 0, writedSize |-> 0,
             suffix |-> << >>, rotateFlag |-> -1, fp |-> 0]

\* &RotateWriter{file: file, rotateMode: mode, rotateSize: defaultRotateSize, rotateFlag: -1}
FreshWriter(mode) ==
  [rotateMode |-> mode, rotateSize |-> defaultRotateSize, writedSize |-> 0,
   suffix |-> << >>, rotateFlag |-> -1, fp |-> 0]

\* doRotate(suffix) by call k at time t: the writer, the directory and the
\* files it leaves, its error, the record of the call, and the lines it
\* prints to os.Stderr
doRotate(st, suffix, k, t, dir, inodes, renameFails, openFails) ==
  LET toRename == st.suffix # << >> /\ LivePath \in DOMAIN dir
      target == ArchivePath(st.suffix)
      dir1 == IF toRename
              THEN [n \in (DOMAIN dir \cup {target}) \ {LivePath} |->
                      IF n = target THEN dir[LivePath] ELSE dir[n]]
              ELSE dir
      ev == [k |-> k, renamed |-> FALSE, path |-> << >>, data |-> << >>,
             opened |-> FALSE]
  IN IF toRename /\ renameFails
     THEN [st |-> st, dir |-> dir, inodes |-> inodes, err |-> TRUE, ev |-> <<ev>>,
           diag |-> 0]
     ELSE LET ev1 == IF toRename
                     THEN [ev EXCEPT !.renamed = TRUE, !.path = target,
                                     !.data = inodes[dir[LivePath]].data]
                     ELSE ev
          IN IF openFails
             THEN [st |-> st, dir |-> dir1, inodes |-> inodes, err |-> TRUE,
                   ev |-> <<ev1>>, diag |-> 1]
             ELSE LET exists == LivePath \in DOMAIN dir1
                      ino == IF exists THEN dir1[LivePath] ELSE Len(inodes) + 1
                  IN [st |-> [st EXCEPT !.fp = ino, !.suffix = suffix],
                      dir |-> IF exists THEN dir1
                              ELSE [n \in DOMAIN dir1 \cup {LivePath} |->
                                      IF n = LivePath THEN ino ELSE dir1[n]],
                      inodes |-> IF exists THEN inodes
                                 ELSE Append(inodes, [data |-> << >>, mtime |-> t]),
                      err |-> FALSE,
                      ev |-> <<[ev1 EXCEPT !.opened = TRUE]>>,
                      diag |-> 0]

\* (a test that rotates as soon as the size reaches the threshold)
SizeDue_AtThreshold(writedSize, rotateSize) == writedSize >= rotateSize

\* w.writedSize > w.rotateSize
SizeDue(writedSize, rotateSize) == writedSize > rotateSize

\* rotate() by call k at time t
rotate(st, k, t, dir, inodes, renameFails, openFails) ==
  LET first == st.fp = 0
      found == first /\ LivePath \in DOMAIN dir
      info == inodes[dir[LivePath]]
      \* on first write
      st1 == IF ~found THEN st
             ELSE IF st.rotateMode = RotateByDay /\ info.mtime.day # t.day
             THEN [st EXCEPT !.suffix = FormatDay(info.mtime)]
             ELSE IF st.rotateMode = RotateByHour /\ info.mtime.hour # t.hour
             THEN [st EXCEPT !.suffix = FormatHour(info.mtime)]
             ELSE IF st.rotateMode = RotateBySize
             THEN [st EXCEPT !.writedSize = SizeOf(info.data)]
             ELSE st
      byDay == st1.rotateMode = RotateByDay /\ st1.rotateFlag # t.day
      byHour == ~byDay /\ st1.rotateMode = RotateByHour /\ st1.rotateFlag # t.hour
      bySize == /\ ~byDay /\ ~byHour /\ st1.rotateMode = RotateBySize
                /\ SizeDue(st1.writedSize, st1.rotateSize)
      st2 == IF byDay THEN [st1 EXCEPT !.rotateFlag = t.day]
             ELSE IF byHour THEN [st1 EXCEPT !.rotateFlag = t.hour]
             ELSE IF bySize THEN [st1 EXCEPT !.writedSize = 0, !.suffix = FormatSize(t)]
             ELSE st1
      suffix == IF byDay THEN FormatDay(t)
                ELSE IF byHour THEN FormatHour(t)
                ELSE << >>
  IN IF first \/ byDay \/ byHour \/ bySize
     THEN doRotate(st2, suffix, k, t, dir, inodes, renameFails, openFails)
     ELSE [st |-> st2, dir |-> dir, inodes |-> inodes, err |-> FALSE, ev |-> << >>,
           diag |-> 0]

\* fmt.Fprintf(os.Stderr, ...) of n lines: the lines a sequence of pipe lines,
\* which grows when os.Stderr holds the open write end of a pipe
\* gets when os.Stderr is the write end of the open pipe of a redirect
Fprintf(lines, n) ==
  IF (slot = "pipe" /\ pipeOpen) \/ (slot = "pipe2" /\ rd2.open)
  THEN lines \o [i \in 1 .. n |-> [id |-> Len(slines) + i, long |-> FALSE]]
  ELSE lines

\* the files that may be found at the path when NewRotateWriter is called at
\* time t: none, or one of some size last modified at some time before
NoFile == [exists |-> FALSE, size |-> 0, mtime |-> Time0]
FoundFiles(t) ==
  {NoFile} \cup {f \in [exists : {TRUE}, size : 0 .. MaxMsgLen, mtime : Times] :
                   TimeLE(f.mtime, t)}

\* NewRotateWriter(file, mode) at time t, with the file found at the path
NewRotateWriter(mode, t, found, renameFails, openFails) ==
  /\ rw = "none"
  /\ LET dir == IF ~found.exists THEN << >> ELSE [n \in {LivePath} |-> 1]
         inodes == IF ~found.exists THEN << >>
                   ELSE <<[data |-> IF found.size = 0 THEN << >> ELSE << <<0, found.size>> >>,
                           mtime |-> found.mtime]>>
         r == rotate(FreshWriter(mode), 0, t, dir, inodes, renameFails, openFails)
     IN /\ rw' = IF r.err THEN "nil" ELSE "ok"
        /\ rwSt' = r.st
        /\ fsDir' = r.dir
        /\ fsInodes' = r.inodes
        /\ rotLog' = rotLog \o r.ev
        /\ nFaults' = nFaults + (IF r.err THEN 1 ELSE 0)
        /\ pipeBuf' = IF slot = "pipe" THEN Fprintf(pipeBuf, r.diag) ELSE pipeBuf
        /\ rd2' = IF slot = "pipe2" THEN [rd2 EXCEPT !.buf = Fprintf(@, r.diag)] ELSE rd2
        /\ slines' = Fprintf(slines, r.diag)
  /\ now' = t
  /\ UNCHANGED <<nWrites, sizeSet, wlog, coreVars, removeOK, closeVars, fatal, composed,
                 named, jrec, tagVars,
                 slot, rd, pipeOpen, spc, snext, semit, cpc, atCancel>>

\* SetRotateSize(size)
SetRotateSize(size) ==
  /\ rw = "ok"
  /\ rwSt' = [rwSt EXCEPT !.rotateSize = size]
  /\ sizeSet' = TRUE
  /\ UNCHANGED <<rw, fsDir, fsInodes, now, nWrites, nFaults, rotLog, wlog,
                 coreVars, removeOK, redirVars, endVars>>

\* Write(msg, level) at time t, of a message of len bytes; a rotation error
\* is printed to os.Stderr
Write(len, t, renameFails, openFails) ==
  /\ rw = "ok"
  /\ LET k == nWrites + 1
         r == rotate(rwSt, k, t, fsDir, fsInodes, renameFails, openFails)
     IN /\ fsDir' = r.dir
        /\ rotLog' = rotLog \o r.ev
        /\ nFaults' = nFaults + (IF r.err THEN 1 ELSE 0)
        /\ IF r.err
           THEN /\ rwSt' = r.st
                /\ fsInodes' = r.inodes
           ELSE /\ rwSt' = [r.st EXCEPT !.writedSize = @ + len]
                /\ fsInodes' = [r.inodes EXCEPT ![r.st.fp].data = Append(@, <<k, len>>),
                                                ![r.st.fp].mtime = t]
        /\ wlog' = Append(wlog, [len |-> len, t |-> t, err |-> r.err,
                                 ino |-> IF r.err THEN 0 ELSE r.st.fp,
                                 fpBefore |-> rwSt.fp,
                                 fpAfter |-> r.st.fp])
        /\ pipeBuf' = IF slot = "pipe"
                       THEN Fprintf(pipeBuf, r.diag + (IF r.err THEN 1 ELSE 0))
                       ELSE pipeBuf
        /\ rd2' = IF slot = "pipe2"
                   THEN [rd2 EXCEPT !.buf = Fprintf(@, r.diag + (IF r.err THEN 1 ELSE 0))]
                   ELSE rd2
        /\ slines' = Fprintf(slines, r.diag + (IF r.err THEN 1 ELSE 0))
  /\ nWrites' = nWrites + 1
  /\ now' = t
  /\ UNCHANGED <<rw, sizeSet, coreVars, removeOK, closeVars, fatal, composed,
                 named, jrec, tagVars,
                 slot, rd, pipeOpen, spc, snext, semit, cpc, atCancel>>

FileInit ==
  /\ rw = "none"
  /\ rwSt = NoWriter
  /\ fsDir = << >>
  /\ fsInodes = << >>
  /\ now = Time0
  /\ nWrites = 0
  /\ nFaults = 0
  /\ sizeSet = FALSE
  /\ rotLog = << >>
  /\ wlog = << >>

\* the Write calls tried on a writer of a mode, each <<length, time>>: by
\* size, messages of every length a microsecond after the last call; by hour
\* and by day, one-byte messages at every hour not before the last call
WriteInputs(mode) ==
  IF mode = RotateBySize
  THEN {<<len, [now EXCEPT !.us = @ + 1]>> : len \in 1 .. MaxMsgLen}
  ELSE {<<1, t>> : t \in {u \in Times : TimeLE(now, u)}}

\* the NewRotateWriter calls tried, each <<mode, time, file found>>
NewInputs ==
  {<<RotateBySize, Time0, f>> : f \in FoundFiles(Time0)}
    \cup UNION {{<<mode, t, f>> : f \in {g \in FoundFiles(t) : g.size = 0}} :
                  mode \in {RotateByHour, RotateByDay}, t \in Times}

\* whether a rename or an open may fail in this call
MayFail(renameFails, openFails) ==
  (renameFails \/ openFails) => (nFaults < MaxFaults /\ ~(renameFails /\ openFails))

(***************************************************************************)
Init ==
  /\ logger = "none"
  /\ newErr = FALSE
  /\ newArgs = NoArgs
  /\ level = LevelDebug
  /\ async = FALSE
  /\ headerSessions = << >>
  /\ outsArr = << >>
  /\ outsLen = 0
  /\ mu = 0
  /\ crashed = FALSE
  /\ gpc = [g \in Procs |-> "idle"]
  /\ gloc = [g \in Procs |-> NoLoc]
  /\ gcount = [g \in Procs |-> 0]
  /\ written = [w \in Sinks |-> << >>]
  /\ nCmds = 0
  /\ nSets = 0
  /\ rejected = {}
  /\ chMade = FALSE
  /\ chOut = << >>
  /\ chCmd = << >>
  /\ chans = << >>
  /\ dpc = "none"
  /\ dloc = [item |-> NoItem, rng |-> << >>, idx |-> 0]
  /\ tpc = << >>
  /\ titem = << >>
  /\ tlen = << >>
  /\ owed = {}
  /\ reg = [w \in Sinks |-> "out"]
  /\ listKept = TRUE
  /\ removeOK = TRUE
  /\ FileInit
  /\ RedirInit
  /\ CloseInit
  /\ levelOK = TRUE
  /\ fanOK = TRUE
  /\ multiOK = TRUE

\* the levels the goroutines emit at, and the threshold NewLogger is given,
\* where the claim is not about levels (LevelInfo is the threshold of the
\* package's own logger)
LevelsUsed == {LevelDebug, LevelWarn}

\* the Logger under every threshold and level, with SetLevel: one caller,
\* whose calls complete in program order
NextLevel ==
  \/ \E lv \in Levels, f \in FormatsNew, as \in BOOLEAN : NewLogger(1, lv, f, as)
  \/ \E g \in {1}, L \in Levels : ~async /\ NEmits < MaxEmits /\ EmitCall(g, L)
  \/ \E g \in {1} : EmitLock(g)
  \/ \E g \in {1} : SinkCall(g)
  \/ \E g \in {1} : SinkRet(g)
  \/ \E g \in {1} : EmitUnlock(g)
  \/ \E g \in {1}, T \in Levels : ~async /\ nSets < MaxSetLevel /\ SetLevel(g, T)
  \/ \E g \in {1}, w \in Sinks : ~async /\ nCmds < MaxCmds /\ AddCall(g, w)
  \/ \E g \in {1} : AddLock(g)
  \/ \E g \in {1} : AddBody(g)

SpecLevel == Init /\ [][NextLevel]_vars

\* the synchronous Logger with its sink list changing
NextSync ==
  \/ NewLogger(1, LevelInfo, FmtLevel, FALSE)
  \/ \E g \in Goroutines, L \in LevelsUsed : NEmits < MaxEmits /\ EmitCall(g, L)
  \/ \E g \in Goroutines : EmitLock(g)
  \/ \E g \in Goroutines : SinkCall(g)
  \/ \E g \in Goroutines : SinkRet(g)
  \/ \E g \in Goroutines : EmitUnlock(g)
  \/ \E g \in Goroutines, w \in Sinks : nCmds < MaxCmds /\ AddCall(g, w)
  \/ \E g \in Goroutines : AddLock(g)
  \/ \E g \in Goroutines : AddBody(g)
  \/ \E g \in Goroutines, w \in Sinks : nCmds < MaxCmds /\ RemoveCall(g, w)
  \/ \E g \in Goroutines : RemoveLock(g)
  \/ \E g \in Goroutines : RemoveBody(g)

SpecSync == Init /\ [][NextSync]_vars

\* the asynchronous Logger with its sink list changing
NextAsync ==
  \/ NewLogger(1, LevelInfo, FmtLevel, TRUE)
  \/ \E g \in Goroutines, L \in LevelsUsed : NEmits < MaxAsyncEmits /\ EmitCall(g, L)
  \/ \E g \in Goroutines : EmitSend(g)
  \/ \E g \in Goroutines, w \in Sinks : nCmds < MaxAsyncCmds /\ AddCall(g, w)
  \/ \E g \in Goroutines, w \in Sinks : nCmds < MaxAsyncCmds /\ RemoveCall(g, w)
  \/ \E g \in Goroutines : CmdSend(g)
  \/ DispTake
  \/ DispForward
  \/ DispLoop
  \/ DispAdd
  \/ DispRemove
  \/ \E c \in Queues : TaskRecv(c)
  \/ \E c \in Queues : TaskCheck(c)
  \/ \E c \in Queues : TaskRet(c)

SpecAsync == Init /\ [][NextAsync]_vars

\* the asynchronous Logger whose second goroutine registers a sink and emits
\* only after AddOutput has returned
NextRegister ==
  \/ NewLogger(1, LevelInfo, FmtLevel, TRUE)
  \/ \E L \in LevelsUsed : NEmits < MaxAsyncEmits /\ EmitCall(1, L)
  \/ \E L \in LevelsUsed : NEmits < MaxAsyncEmits /\ nCmds = 1 /\ EmitCall(2, L)
  \/ \E g \in Goroutines : EmitSend(g)
  \/ nCmds = 0 /\ AddCall(2, 2)
  \/ CmdSend(2)
  \/ DispTake
  \/ DispForward
  \/ DispLoop
  \/ DispAdd
  \/ \E c \in Queues : TaskRecv(c)
  \/ \E c \in Queues : TaskCheck(c)
  \/ \E c \in Queues : TaskRet(c)

SpecRegister == Init /\ [][NextRegister]_vars

\* the levels emitted where the sink is flooded
LevelsFlood == {LevelDebug, LevelInfo, LevelWarn}

\* the asynchronous Logger with one sink and one caller
NextFlood ==
  \/ NewLogger(1, LevelDebug, FmtLevel, TRUE)
  \/ \E g \in {1}, L \in LevelsFlood : NEmits < MaxFloodEmits /\ EmitCall(g, L)
  \/ \E g \in {1} : EmitSend(g)
  \/ DispTake
  \/ DispForward
  \/ DispLoop
  \/ DispAdd
  \/ \E c \in Queues : TaskRecv(c)
  \/ \E c \in Queues : TaskCheck(c)
  \/ \E c \in Queues : TaskRet(c)

SpecFlood == Init /\ [][NextFlood]_vars

\* construction under every format string of the pieces, then one emit
NextNew ==
  \/ \E out \in Sinks, lv \in Levels, ps \in PieceSeqs, as \in BOOLEAN :
       NewLogger(out, lv, Concat(ps), as)
  \/ \E g \in {1}, L \in LevelsUsed : NEmits < MaxNewEmits /\ EmitCall(g, L)
  \/ \E g \in {1} : EmitLock(g)
  \/ \E g \in {1} : SinkCall(g)
  \/ \E g \in {1} : SinkRet(g)
  \/ \E g \in {1} : EmitUnlock(g)
  \/ \E g \in {1} : EmitSend(g)
  \/ DispTake
  \/ DispForward
  \/ DispLoop
  \/ DispAdd
  \/ \E c \in Queues : TaskRecv(c)
  \/ \E c \in Queues : TaskCheck(c)
  \/ \E c \in Queues : TaskRet(c)

SpecNew == Init /\ [][NextNew]_vars

\* a RotateWriter in each mode over a clock that advances, without faults
NextRotate ==
  \/ \E in \in NewInputs : NewRotateWriter(in[1], in[2], in[3], FALSE, FALSE)
  \/ \E size \in 1 .. MaxRotateSize :
       rwSt.rotateMode = RotateBySize /\ ~sizeSet /\ nWrites = 0 /\ SetRotateSize(size)
  \/ \E in \in WriteInputs(rwSt.rotateMode) :
       nWrites < MaxWrites /\ Write(in[1], in[2], FALSE, FALSE)

SpecRotate == Init /\ [][NextRotate]_vars

\* the same with renames and opens that fail
NextRotateFault ==
  \/ \E in \in NewInputs, rf, of \in BOOLEAN :
       MayFail(rf, of) /\ NewRotateWriter(in[1], in[2], in[3], rf, of)
  \/ \E size \in 1 .. MaxRotateSize :
       rwSt.rotateMode = RotateBySize /\ ~sizeSet /\ nWrites = 0 /\ SetRotateSize(size)
  \/ \E in \in WriteInputs(rwSt.rotateMode), rf, of \in BOOLEAN :
       nWrites < MaxWrites /\ MayFail(rf, of) /\ Write(in[1], in[2], rf, of)

SpecRotateFault == Init /\ [][NextRotateFault]_vars

\* a synchronous Logger with one redirect
NextRedirect ==
  \/ \E lv \in Levels : NewLogger(1, lv, FmtLevel, FALSE)
  \/ \E lv \in Levels, pf \in BOOLEAN : AddRedirect(1, lv, pf)
  \/ \E long \in BOOLEAN : Len(slines) < MaxLines /\ SlotWrite(long)
  \/ ScanTake
  \/ ScanEmit
  \/ ScanLoop
  \/ ScanFinal
  \/ ScanEnd
  \/ CancelStart(1)
  \/ CancelWarn(1)
  \/ CancelFinish(1)
  \/ \E g \in Procs : EmitLock(g)
  \/ \E g \in Procs : SinkCall(g)
  \/ \E g \in Procs : SinkRet(g)
  \/ \E g \in Procs : EmitUnlock(g)

SpecRedirect == Init /\ [][NextRedirect]_vars

\* the sink of a synchronous Logger is a RotateWriter by hour whose rotation
\* may fail, and os.Stderr is redirected into the Logger: every Write call a
\* sink receives is run by the RotateWriter before it returns
NextRotateRedirect ==
  \/ rw = "ok" /\ NewLogger(1, LevelInfo, FmtLevel, FALSE)
  \/ \E t \in {Time0} : NewRotateWriter(RotateByHour, t, NoFile, FALSE, FALSE)
  \/ \E pf \in BOOLEAN : AddRedirect(1, LevelError, pf)
  \/ \E L \in {LevelInfo} : NEmits < MaxEmits /\ cpc.pc # "warn" /\ EmitCall(1, L)
  \/ \E g \in Procs : EmitLock(g)
  \/ \E g \in Procs : nWrites < MaxWrites /\ SinkCall(g)
  \/ \E g \in Procs, in \in WriteInputs(RotateByHour), rf, of \in BOOLEAN :
       /\ gpc[g] = "inwrite"
       /\ nWrites < Len(written[1])
       /\ MayFail(rf, of)
       /\ Write(in[1], in[2], rf, of)
  \/ \E g \in Procs : nWrites = Len(written[1]) /\ SinkRet(g)
  \/ \E g \in Procs : EmitUnlock(g)
  \/ ScanTake
  \/ ScanEmit
  \/ ScanLoop
  \/ ScanFinal
  \/ ScanEnd
  \/ CancelStart(1)
  \/ CancelWarn(1)
  \/ CancelFinish(1)

SpecRotateRedirect == Init /\ [][NextRotateRedirect]_vars

\* the slot is redirected twice, and both Redirectors are cancelled
NextRedirectTwice ==
  \/ NewLogger(1, LevelInfo, FmtLevel, FALSE)
  \/ \E pf \in BOOLEAN : AddRedirect(1, LevelError, pf)
  \/ \E pf \in BOOLEAN : AddRedirectAgain(1, LevelError, pf)
  \/ Len(slines) < MaxLines /\ SlotWrite(FALSE)
  \/ ScanTake
  \/ ScanEmit
  \/ ScanLoop
  \/ ScanFinal
  \/ ScanEnd
  \/ Scan2Take
  \/ Scan2Emit
  \/ Scan2Loop
  \/ Scan2Final
  \/ Scan2End
  \/ ~(rd2.pc = "warn") /\ CancelStart(1)
  \/ CancelWarn(1)
  \/ CancelFinish(1)
  \/ CancelAgainStart(1)
  \/ CancelAgainWarn(1)
  \/ CancelAgainFinish(1)
  \/ \E g \in Procs : EmitLock(g)
  \/ \E g \in Procs : SinkCall(g)
  \/ \E g \in Procs : SinkRet(g)
  \/ \E g \in Procs : EmitUnlock(g)

SpecRedirectTwice == Init /\ [][NextRedirectTwice]_vars

\* the terminating wrappers: Fatal, Fatalln, Fatalf end in os.Exit(1), Panic,
\* Panicln, Panicf in panic(s)
FatalKinds == {"exit", "panic"}

\* Fatal(v...) or Panic(v...) is called: the message is formatted
FatalEnter(g, kind) ==
  /\ Running
  /\ gpc[g] = "idle"
  /\ fatal.pc = "none"
  /\ fatal' = [g |-> g, kind |-> kind, n |-> gcount[g] + 1,
               must |-> Range(WritersOf(Outs)), pc |-> "call"]
  /\ UNCHANGED <<coreVars, removeOK, fileVars, redirVars, closeVars, composed, extVars>>

\* l.Output(LevelCritical, CallDepth+1, s)
FatalOutput(g) ==
  /\ fatal.pc = "call"
  /\ fatal.g = g
  /\ gcount[g] < fatal.n
  /\ EmitCall(g, LevelCritical)

\* Output has returned: os.Exit(1) or panic(s)
FatalEnd(g) ==
  /\ Running
  /\ fatal.pc = "call"
  /\ fatal.g = g
  /\ gcount[g] >= fatal.n
  /\ gpc[g] = "idle"
  /\ fatal' = [fatal EXCEPT !.pc = "over"]
  /\ UNCHANGED <<coreVars, removeOK, fileVars, redirVars, closeVars, composed, extVars>>

\* the thresholds a Logger is made with
LevelsFatal == {LevelInfo, LevelCritical}

\* a Logger of either mode, one caller of which calls Fatal or Panic
NextFatal ==
  \/ \E lv \in LevelsFatal, as \in BOOLEAN : NewLogger(1, lv, FmtLevel, as)
  \/ \E g \in Goroutines, L \in LevelsUsed :
       NEmits < MaxEmits /\ fatal.g # g /\ EmitCall(g, L)
  \/ \E g \in Goroutines : EmitLock(g)
  \/ \E g \in Goroutines : SinkCall(g)
  \/ \E g \in Goroutines : SinkRet(g)
  \/ \E g \in Goroutines : EmitUnlock(g)
  \/ \E g \in Goroutines : EmitSend(g)
  \/ \E g \in {2}, w \in {2} : nCmds < 1 /\ AddCall(g, w)
  \/ \E g \in Goroutines : AddLock(g)
  \/ \E g \in Goroutines : AddBody(g)
  \/ \E g \in Goroutines : CmdSend(g)
  \/ \E g \in {1}, kind \in FatalKinds : FatalEnter(g, kind)
  \/ \E g \in Goroutines : FatalOutput(g)
  \/ \E g \in Goroutines : FatalEnd(g)
  \/ DispTake
  \/ DispForward
  \/ DispLoop
  \/ DispAdd
  \/ \E c \in Queues : TaskRecv(c)
  \/ \E c \in Queues : TaskCheck(c)
  \/ \E c \in Queues : TaskRet(c)

SpecFatal == Init /\ [][NextFatal]_vars

\* the messages: every string of at most MaxChars characters
MsgChars == {"a", "\n"}
Msgs == UNION {[1 .. n -> MsgChars] : n \in 0 .. MaxChars}

\* the call of Output or OutputJson by goroutine 1 and its level test, which
\* reads l.level without the mutex: if level < l.level { return }; next is
\* the position of an admitted call
LevelTest(lv, next) ==
  /\ Running
  /\ gpc[1] = "idle"
  /\ gcount' = [gcount EXCEPT ![1] = @ + 1]
  /\ IF Admit(lv, level)
     THEN /\ gpc' = [gpc EXCEPT ![1] = next]
          /\ gloc' = [gloc EXCEPT ![1] = [NoLoc EXCEPT !.level = lv, !.T = level,
                                                       !.n = gcount[1] + 1]]
          /\ UNCHANGED rejected
     ELSE /\ rejected' = rejected \cup {<<1, gcount[1] + 1>>}
          /\ UNCHANGED <<gpc, gloc>>
  /\ levelOK' = (levelOK /\ (Admit(lv, level) <=> ~(lv < level)))
  /\ UNCHANGED <<cfgVars, outsVars, mu, crashed, written, nCmds, nSets,
                 asyncVars, reg, listKept, fanOK, multiOK,
                 removeOK, fileVars, redirVars, closeVars, fatal, named, rd2, tagVars>>

\* Output(level, calldepth, s) is called by goroutine 1: the level test
Output(lv, s) ==
  /\ ~composed.done
  /\ LevelTest(lv, "render")
  /\ composed' = IF Admit(lv, level)
                 THEN [NoComposed EXCEPT !.level = lv, !.s = s]
                 ELSE composed
  /\ UNCHANGED jrec

\* output(level, calldepth, s) builds the bytes and calls write
OutputRender ==
  /\ Running
  /\ gpc[1] = "render"
  /\ composed' = [composed EXCEPT
                    !.done = TRUE,
                    !.line = output(headerSessions, composed.level, composed.s, composed.env),
                    !.lookups = HeaderLoop(headerSessions, 1, << >>, NewItem(composed.level),
                                           composed.env).item.lookups]
  /\ gpc' = [gpc EXCEPT ![1] = IF async THEN "send" ELSE "lock"]
  /\ UNCHANGED <<gloc, cfgVars, outsVars, mu, crashed, gcount, written, countVars,
                 asyncVars, ghostVars, removeOK, fileVars, redirVars, closeVars, fatal,
                 extVars>>

\* a Logger of every format string of the pieces, and the bytes of one emit
NextOutput ==
  \/ \E ps \in PieceSeqs : NewLogger(1, LevelInfo, Concat(ps), FALSE)
  \/ \E lv \in Levels, s \in Msgs : NEmits < MaxNewEmits /\ Output(lv, s)
  \/ OutputRender
  \/ \E g \in Procs : EmitLock(g)
  \/ \E g \in Procs : SinkCall(g)
  \/ \E g \in Procs : SinkRet(g)
  \/ \E g \in Procs : EmitUnlock(g)

SpecOutput == Init /\ [][NextOutput]_vars

\* the pieces of the format strings that name the calling site
CallPieces == {PcText, PcLevelno,
               <<"%", "(">> \o KwFilename \o <<")">>,
               <<"%", "(">> \o KwFunction \o <<")">>,
               <<"%", "(">> \o KwLineno \o <<")">>}

\* a Logger of every format string of these pieces, and the bytes of one emit
NextRender ==
  \/ \E ps \in UNION {[1 .. n -> CallPieces] : n \in 0 .. MaxPieces} :
       NewLogger(1, LevelInfo, Concat(ps), FALSE)
  \/ \E lv \in Levels, s \in Msgs : NEmits < MaxNewEmits /\ Output(lv, s)
  \/ OutputRender
  \/ \E g \in Procs : EmitLock(g)
  \/ \E g \in Procs : SinkCall(g)
  \/ \E g \in Procs : SinkRet(g)
  \/ \E g \in Procs : EmitUnlock(g)

SpecRender == Init /\ [][NextRender]_vars

\* Output(level, calldepth, s) is called by goroutine 1 with a calldepth at
\* which the run time gives env: the level test
OutputDepth(lv, s, env) ==
  /\ ~composed.done
  /\ LevelTest(lv, "render")
  /\ composed' = IF Admit(lv, level)
                 THEN [NoComposed EXCEPT !.level = lv, !.s = s, !.env = env]
                 ELSE composed
  /\ UNCHANGED jrec

\* the placeholders that name the calling site
PcFilename == <<"%", "(">> \o KwFilename \o <<")">>
PcFunction == <<"%", "(">> \o KwFunction \o <<")">>
PcLineno == <<"%", "(">> \o KwLineno \o <<")">>
SitePieces == {PcFilename, PcFunction, PcLineno}
CallEnvs == {CallEnv, CallEnvNoFunc, CallEnvFailed}

\* a Logger of every format string of these placeholders, and one emit at a
\* calldepth where the lookup succeeds, finds no function, or fails
NextCaller ==
  \/ \E ps \in UNION {[1 .. n -> SitePieces] : n \in 0 .. MaxPieces + 1} :
       NewLogger(1, LevelInfo, Concat(ps), FALSE)
  \/ \E lv \in Levels, env \in CallEnvs :
       NEmits < MaxNewEmits /\ OutputDepth(lv, <<"a">>, env)
  \/ OutputRender
  \/ \E g \in Procs : EmitLock(g)
  \/ \E g \in Procs : SinkCall(g)
  \/ \E g \in Procs : SinkRet(g)
  \/ \E g \in Procs : EmitUnlock(g)

SpecCaller == Init /\ [][NextCaller]_vars

\* OutputJson(level, calldepth, items) is called by goroutine 1: the level
\* test
OutputJson(lv, items) ==
  /\ ~jrec.done
  /\ LevelTest(lv, "marshal")
  /\ jrec' = IF Admit(lv, level)
             THEN [NoJson EXCEPT !.level = lv, !.items = items]
             ELSE jrec
  /\ UNCHANGED composed

\* the rest of OutputJson: the loop over the sessions, Marshal and the return
\* on its error, the terminator, the call of write
JsonRender ==
  /\ Running
  /\ gpc[1] = "marshal"
  /\ LET r == JsonLoop(headerSessions, 1, << >>, jrec.items, NewItem(jrec.level), CallEnv)
         j == Marshal(r.items)
     IN /\ jrec' = [jrec EXCEPT !.done = TRUE, !.wrote = ~j.err,
                                !.buf = IF j.err THEN << >> ELSE r.buf \o j.buf \o <<"\n">>]
        /\ gpc' = [gpc EXCEPT ![1] = IF j.err THEN "idle"
                                     ELSE IF async THEN "send" ELSE "lock"]
        /\ gloc' = IF j.err THEN [gloc EXCEPT ![1] = NoLoc] ELSE gloc
  /\ UNCHANGED <<cfgVars, outsVars, mu, crashed, gcount, written, countVars,
                 asyncVars, ghostVars, removeOK, fileVars, redirVars, closeVars, fatal,
                 composed,
                 named, rd2, tagVars>>

\* the pieces of the format strings of the structured records
PcLevelnoAs == <<"%", "(">> \o KwLevelno \o <<":", "n", ")">>
PcFilenameAs == <<"%", "(">> \o KwFilename \o <<":", "n", ")">>
JsonPieces == {PcText, PcLevelnoAs, PcFilenameAs, PcAsctimeAs}
JsonFormats == {Concat(ps) : ps \in UNION {[1 .. n -> JsonPieces] : n \in 0 .. MaxPieces + 1}}

\* the maps the callers pass
JsonKeys == {<<"a">>, <<"n">>}
JsonValues == {JInt(1), JStr(<<"b">>), JStr(<<"\"">>), JBad}
JsonMaps == UNION {[K -> JsonValues] : K \in SUBSET JsonKeys}

\* a Logger of every format string of these pieces, and one structured record
NextJson ==
  \/ \E f \in JsonFormats : NewLogger(1, LevelInfo, f, FALSE)
  \/ \E lv \in Levels, items \in JsonMaps : NEmits < MaxNewEmits /\ OutputJson(lv, items)
  \/ JsonRender
  \/ \E g \in Procs : EmitLock(g)
  \/ \E g \in Procs : SinkCall(g)
  \/ \E g \in Procs : SinkRet(g)
  \/ \E g \in Procs : EmitUnlock(g)

SpecJson == Init /\ [][NextJson]_vars

\* (a table that holds the name at every level)
Tagged_All(tbl, lv, name) == [i \in DOMAIN tbl |-> name]

\* levels[level] = name
Tagged(tbl, lv, name) == [tbl EXCEPT ![lv + 1] = name]

\* SetLevelTag(level, name)
SetLevelTag(lv, name) ==
  /\ ~crashed
  /\ fatal.pc # "over"
  /\ levels' = Tagged(levels, lv, name)
  /\ tagged' = [tagged EXCEPT ![lv] = [set |-> TRUE, name |-> name, built |-> logger = "ok"]]
  /\ UNCHANGED <<coreVars, removeOK, fileVars, redirVars, closeVars, fatal, composed,
                 named, rd2, jrec>>

\* the names given to SetLevelTag: a new one, and the one of another level
TagNames == {<<"T">>, <<"I">>}
\* the levels it is called for; the emits are at every level
TagLevels == {LevelWarn, LevelError}

\* a Logger of a format string of text and %(levelno), SetLevelTag before
\* and after it is constructed, and the bytes of one emit
NextTags ==
  \/ \E ps \in UNION {[1 .. n -> {PcText, PcLevelno}] : n \in 0 .. MaxPieces} :
       NewLogger(1, LevelInfo, Concat(ps), FALSE)
  \/ \E lv \in TagLevels, name \in TagNames : SetLevelTag(lv, name)
  \/ \E lv \in Levels : NEmits < MaxNewEmits /\ Output(lv, <<"a">>)
  \/ OutputRender
  \/ \E g \in Procs : EmitLock(g)
  \/ \E g \in Procs : SinkCall(g)
  \/ \E g \in Procs : SinkRet(g)
  \/ \E g \in Procs : EmitUnlock(g)

SpecTags == Init /\ [][NextTags]_vars

\* the emitters named after a level, each with the level it passes to
\* Outputf or OutputJson
Emitters ==
  [Debugf |-> LevelDebug, Infof |-> LevelInfo, Warnf |-> LevelWarn,
   Errorf |-> LevelError, Criticalf |-> LevelCritical,
   DebugJson |-> LevelDebug, InfoJson |-> LevelInfo, WarnJson |-> LevelWarn,
   ErrorJson |-> LevelError, CriticalJson |-> LevelDebug]

\* goroutine g calls the emitter
EmitterEnter(g, name) ==
  /\ Running
  /\ gpc[g] = "idle"
  /\ \A x \in named : x[1] = g => gcount[g] >= x[2]
  /\ named' = named \cup {<<g, gcount[g] + 1, name>>}
  /\ UNCHANGED <<coreVars, removeOK, fileVars, redirVars, closeVars, fatal, composed, rd2, jrec, tagVars>>

\* l.Outputf(level, NormalDepth+1, format, a...) or
\* l.OutputJson(level, NormalDepth+1, items) of the emitter
EmitterOutput(g) ==
  \E x \in named :
    /\ x[1] = g
    /\ gcount[g] < x[2]
    /\ EmitCall(g, Emitters[x[3]])

\* a synchronous Logger of every threshold whose caller uses the emitters
NextEmitters ==
  \/ \E lv \in Levels : NewLogger(1, lv, FmtLevel, FALSE)
  \/ \E g \in {1}, name \in DOMAIN Emitters : NEmits < MaxEmits /\ EmitterEnter(g, name)
  \/ \E g \in {1} : EmitterOutput(g)
  \/ \E g \in {1} : EmitLock(g)
  \/ \E g \in {1} : SinkCall(g)
  \/ \E g \in {1} : SinkRet(g)
  \/ \E g \in {1} : EmitUnlock(g)

SpecEmitters == Init /\ [][NextEmitters]_vars

\* an asynchronous Logger that is closed once its callers are idle
NextClose ==
  \/ NewLogger(1, LevelInfo, FmtLevel, TRUE)
  \/ \E g \in Goroutines, L \in LevelsUsed :
       NEmits < MaxAsyncEmits /\ ~closedCmd /\ EmitCall(g, L)
  \/ \E g \in Goroutines : EmitSend(g)
  \/ \E g \in {1} : (\A h \in Procs : gpc[h] = "idle") /\ CloseCall(g)
  \/ \E g \in {1} : CloseOut(g)
  \/ \E g \in {1} : CloseIns(g)
  \/ DispTake
  \/ DispForward
  \/ DispLoop
  \/ DispAdd
  \/ DispCmdClosed
  \/ \E c \in Queues : TaskRecv(c)
  \/ \E c \in Queues : TaskCheck(c)
  \/ \E c \in Queues : TaskRet(c)

SpecClose == Init /\ [][NextClose]_vars

(***************************************************************************)
(* N goroutines emit one admitted message each on a Logger whose sink      *)
(* list does not change.                                                   *)
(***************************************************************************)
\* NewLogger(1, ...) followed by AddOutput(2), ..., AddOutput(m)
InitConc ==
  /\ logger = "ok"
  /\ newErr = FALSE
  /\ level \in Levels
  /\ newArgs = [out |-> 1, level |-> level, fmtStr |-> FmtLevel, async |-> FALSE]
  /\ async = FALSE
  /\ headerSessions = setHeaderFormat(FmtLevel).sessions
  /\ \E m \in Sinks :
       /\ outsArr = [i \in 1 .. m |-> OutWriter(i, 0)]
       /\ outsLen = m
       /\ reg = [w \in Sinks |-> IF w <= m THEN "in" ELSE "out"]
       /\ nCmds = m - 1
  /\ mu = 0
  /\ crashed = FALSE
  /\ gpc = [g \in Procs |-> "idle"]
  /\ gloc = [g \in Procs |-> NoLoc]
  /\ gcount = [g \in Procs |-> 0]
  /\ written = [w \in Sinks |-> << >>]
  /\ nSets = 0
  /\ rejected = {}
  /\ chMade = FALSE
  /\ chOut = << >>
  /\ chCmd = << >>
  /\ chans = << >>
  /\ dpc = "none"
  /\ dloc = [item |-> NoItem, rng |-> << >>, idx |-> 0]
  /\ tpc = << >>
  /\ titem = << >>
  /\ tlen = << >>
  /\ owed = {}
  /\ listKept = TRUE
  /\ removeOK = TRUE
  /\ FileInit
  /\ RedirInit
  /\ CloseInit
  /\ levelOK = TRUE
  /\ fanOK = TRUE
  /\ multiOK = TRUE

\* goroutine g emits its one message, at a level the threshold admits
EmitOne(g) ==
  /\ gcount[g] = 0
  /\ \E L \in Levels : L >= level /\ EmitCall(g, L)

NextConc ==
  \/ \E g \in Goroutines : EmitOne(g)
  \/ \E g \in Goroutines : EmitLock(g)
  \/ \E g \in Goroutines : SinkCall(g)
  \/ \E g \in Goroutines : SinkRet(g)
  \/ \E g \in Goroutines : EmitUnlock(g)

SpecConc == InitConc /\ [][NextConc]_vars

(***************************************************************************)
(* The claims.                                                             *)
(***************************************************************************)
\* the entries of a sink's log that come from goroutine g
EntriesOf(w, g) == SelectSeq(written[w], LAMBDA e : e.g = g)

\* C1: on a synchronous Logger an emit at level L under threshold T (from
\* NewLogger or from a SetLevel that returned) calls no sink's Write when
\* L < T, and when L >= T calls Write exactly once per registered entry of the
\* sink list: the level test admitted exactly the emits with L >= T, no log
\* holds an emit the test turned away, an emit in progress has L >= T, and
\* every write that returned had called the registered writers once each, in
\* order.
C1_LevelAdmission ==
  /\ levelOK
  /\ fanOK
  /\ \A w \in Sinks : \A i \in 1 .. Len(written[w]) :
       <<written[w][i].g, written[w][i].n>> \notin rejected
  /\ \A g \in Goroutines :
       gpc[g] \in {"lock", "fan", "inwrite"} => gloc[g].level >= gloc[g].T

\* an emit at the threshold's own level, set by SetLevel above Debug, has been
\* written to two sinks, after another emit was turned away
C1_Witness ==
  /\ rejected # {}
  /\ nSets > 0
  /\ \E g \in Goroutines :
       /\ gpc[g] = "fan"
       /\ gloc[g].idx > Len(gloc[g].rng)
       /\ Len(gloc[g].wrote) >= 2
       /\ gloc[g].level = gloc[g].T
       /\ gloc[g].T > LevelDebug

\* C2: when every goroutine has emitted its one admitted message, with the
\* sink list unchanged, every registered sink has received exactly one Write
\* per goroutine (NumG in all) and an unregistered sink none.
C2_ExactlyN ==
  (\A g \in Goroutines : gpc[g] = "idle" /\ gcount[g] = 1) =>
    \A w \in Sinks :
      IF w \in Range(WritersOf(Outs))
      THEN /\ Len(written[w]) = NumG
           /\ \A g \in Goroutines : Len(EntriesOf(w, g)) = 1
      ELSE written[w] = << >>

\* all have emitted, onto two sinks or more, and the last goroutine was first
C2_Witness ==
  /\ \A g \in Goroutines : gpc[g] = "idle" /\ gcount[g] = 1
  /\ outsLen >= 2
  /\ \A w \in Range(WritersOf(Outs)) : Len(written[w]) = NumG /\ written[w][1].g = NumG

\* the goroutines inside the fan-out of an emit or inside a change of the sink list
InCritical == {g \in Goroutines : gpc[g] \in {"fan", "inwrite", "addbody", "rembody"}}

\* C3: on a synchronous Logger at most one goroutine at a time is inside a
\* sink Write, a fan-out or an AddOutput/RemoveOutput change of the sink
\* list, and it holds the mutex.
C3_MutualExclusion ==
  /\ Cardinality(InCritical) <= 1
  /\ \A g \in InCritical : mu = g

\* one goroutine is inside a sink's Write while another waits to change the list
C3_Witness ==
  \E g, h \in Goroutines :
    /\ gpc[g] = "inwrite"
    /\ gpc[h] \in {"addlock", "remlock"}

\* C10: on a synchronous Logger every write that returned had written to each
\* sink whose AddOutput had returned and to no sink whose RemoveOutput (of a
\* once-registered sink) had returned, AddOutput appended to the sink list,
\* and such a RemoveOutput kept the other entries, in order.
C10_MultiOutput ==
  /\ multiOK
  /\ listKept
  /\ ~crashed => \A w \in Sinks :
       /\ (reg[w] = "in" => w \in Range(WritersOf(Outs)))
       /\ (reg[w] = "out" => w \notin Range(WritersOf(Outs)))

\* sink 2 was added, written to and removed from between sinks 1 and 3, and a
\* later emit has been written to 1 and 3 only
C10_Witness ==
  /\ written[2] # << >>
  /\ \E g \in Goroutines :
       /\ gpc[g] = "fan"
       /\ gloc[g].idx > Len(gloc[g].rng)
       /\ gloc[g].wrote = <<1, 3>>
       /\ gloc[g].must = {1, 3}
       /\ 2 \in gloc[g].mustNot

(***************************************************************************)
(* The asynchronous Logger.                                                *)
(***************************************************************************)
\* C4: at no moment are two Write calls on the same IOutput in progress,
\* whatever AddOutput, RemoveOutput and emit calls were made, the same
\* IOutput registered twice included.
C4_SerializedWriter ==
  \A c1, c2 \in 1 .. Len(chans) :
    (c1 # c2 /\ chans[c1].writer = chans[c2].writer)
      => ~(tpc[c1] = "inwrite" /\ tpc[c2] = "inwrite")

\* C5: for each goroutine and each sink, the goroutine's messages written to
\* the sink are in the order the goroutine emitted them.
C5_ProducerFifo ==
  \A w \in Sinks, g \in Goroutines :
    LET e == EntriesOf(w, g) IN
    \A i, j \in 1 .. Len(e) : i < j => e[i].n <= e[j].n

\* C6: a Warn, Error or Critical message the dispatcher took is passed to
\* Write of every sink registered at that moment: the program never stops
\* while such a message is still owed to a sink.
C6_WarnDelivered == (~ENABLED NextAsync) => owed = {}

\* whether the queue a task read as holding len items is over the claim's
\* threshold for the level: more than 60% full for Debug, more than 80% for
\* Debug and Info
OverThreshold(len, lv) ==
  \/ lv <= LevelDebug /\ 5 * len > 3 * OutputBuffer
  \/ lv <= LevelInfo /\ 5 * len > 4 * OutputBuffer

\* C7: an item a sink task handles is not written when it is a Debug item and
\* the queue is more than 60% full or an Info item and the queue is more
\* than 80% full, and is written otherwise.
C7_DropThresholds ==
  \A c \in 1 .. Len(chans) :
    /\ tpc[c] = "inwrite" => ~OverThreshold(tlen[c], titem[c].level)
    /\ (tpc[c] = "recv" /\ tlen[c] >= 0) => OverThreshold(tlen[c], titem[c].level)

\* an Info item was skipped at a full queue
C7_Witness ==
  \E c \in 1 .. Len(chans) :
    /\ tpc[c] = "recv"
    /\ tlen[c] = OutputBuffer
    /\ titem[c].level = LevelInfo
    /\ \E e \in Range(written[chans[c].writer]) : e.level = LevelDebug

\* C8, as stated: an emitting caller waits only when it emits Warn or above
\* while a per-sink queue is full; a Debug or Info emit never waits.
C8_OnlyWarnWaits ==
  \A g \in Goroutines :
    (gpc[g] = "send" /\ ~ENABLED EmitSend(g))
      => /\ gloc[g].level >= LevelWarn
         /\ \E c \in 1 .. Len(chans) : Len(chans[c].buf) = OutputBuffer

\* C8: an emitting caller waits exactly while the main queue is full,
\* whatever the level of its message and whatever the per-sink queues hold,
\* and the main queue never holds more than AsyncBuffer items.
C8_WaitsOnMainQueue ==
  /\ Len(chOut) <= AsyncBuffer
  /\ \A g \in Goroutines :
       gpc[g] = "send" => (ENABLED EmitSend(g) <=> Len(chOut) < AsyncBuffer)

\* a Debug or Info emit waits behind a stalled sink: the sink's task is in
\* Write, its queue is full, the dispatcher waits on it and the main queue
\* is full
C8_Witness ==
  \E g \in Goroutines :
    /\ gpc[g] = "send"
    /\ gloc[g].level <= LevelInfo
    /\ ~ENABLED EmitSend(g)
    /\ dpc = "fan"
    /\ dloc.idx <= Len(dloc.rng)
    /\ \E c \in 1 .. Len(chans) :
         /\ tpc[c] = "inwrite"
         /\ Len(chans[c].buf) = OutputBuffer
         /\ dloc.rng[dloc.idx].chIn = c

(***************************************************************************)
(* Construction.                                                           *)
(***************************************************************************)
\* a format string with a placeholder %(keyword) or %(keyword:alias) whose
\* keyword is not a recognized one
Unrecognized(fmtStr) ==
  \E ps \in PieceSeqs :
    /\ Concat(ps) = fmtStr
    /\ \E i \in 1 .. Len(ps) : ps[i] \in UnknownPieces

\* C9: NewLogger with a format string that holds a placeholder with an
\* unrecognized keyword returns an error and nil, calls no Write, registers
\* the sink nowhere and makes no queue and no task, async or not.
C9_BadFormatNoEffect ==
  (logger # "none" /\ Unrecognized(newArgs.fmtStr))
    => /\ logger = "nil"
       /\ newErr
       /\ \A w \in Sinks : written[w] = << >>
       /\ outsLen = 0 /\ outsArr = << >>
       /\ ~chMade /\ chOut = << >> /\ chCmd = << >>
       /\ chans = << >> /\ tpc = << >>
       /\ dpc = "none"
       /\ headerSessions = << >>

\* an asynchronous construction failed on a placeholder that follows a
\* recognized one
C9_Witness ==
  /\ logger = "nil"
  /\ newArgs.async
  /\ newArgs.fmtStr = Concat(<<PcLevelno, PcBogus>>)

(***************************************************************************)
(* The sink list under repeated registration.                              *)
(***************************************************************************)
\* C11: every RemoveOutput(w) returns normally and removes exactly the first
\* entry whose writer is w, the other entries (later ones of w included)
\* staying registered and in order.
C11_RemoveFirstOnly == removeOK

(***************************************************************************)
(* The RotateWriter.                                                       *)
(***************************************************************************)
\* the bytes the first k Write calls were given
RECURSIVE Total(_)
Total(k) == IF k = 0 THEN 0 ELSE wlog[k].len + Total(k - 1)

\* the messages of the first k Write calls, in order
WritesUpTo(k) == [i \in 1 .. k |-> <<i, wlog[i].len>>]

\* the rotations (rename of the live file plus reopen) made by call k
RotationsAt(k) ==
  {i \in 1 .. Len(rotLog) : rotLog[i].k = k /\ rotLog[i].renamed /\ rotLog[i].opened}

\* a writer by size whose threshold was set before its first Write, on a
\* file that was missing or empty
SizeCase ==
  /\ rw = "ok"
  /\ rwSt.rotateMode = RotateBySize
  /\ sizeSet
  /\ \A i \in 1 .. Len(fsInodes) : \A e \in Range(fsInodes[i].data) : e[1] # 0

\* call k is the one whose bytes take the total over the threshold
Crossing(k) == Total(k - 1) <= rwSt.rotateSize /\ Total(k) > rwSt.rotateSize

\* C12, as stated: when two consecutive Write calls are the first to exceed
\* the threshold together, exactly one rotation happens, between the two
\* calls, and the archive holds exactly the bytes written before the crossing.
C12_RotatesAtCrossing ==
  SizeCase =>
    \A k \in 2 .. nWrites :
      Crossing(k) =>
        /\ \A j \in 0 .. (k - 1) : RotationsAt(j) = {}
        /\ Cardinality(RotationsAt(k)) = 1
        /\ \A i \in RotationsAt(k) : rotLog[i].data = WritesUpTo(k - 1)

\* C12: the call whose bytes take the total over the threshold is written
\* without a rotation; exactly one rotation happens at the start of the next
\* Write call, and the archive holds every byte written up to and including
\* the call that crossed the threshold.
C12_RotatesAfterCrossing ==
  SizeCase =>
    \A k \in 1 .. nWrites :
      Crossing(k) =>
        /\ \A j \in 0 .. k : RotationsAt(j) = {}
        /\ nWrites > k =>
             /\ Cardinality(RotationsAt(k + 1)) = 1
             /\ \A i \in RotationsAt(k + 1) :
                  /\ rotLog[i].data = WritesUpTo(k)
                  /\ rotLog[i].path \in DOMAIN fsDir
                  /\ fsInodes[fsDir[rotLog[i].path]].data = WritesUpTo(k)
                  /\ Head(fsInodes[wlog[k + 1].ino].data) = <<k + 1, wlog[k + 1].len>>
                  /\ wlog[k + 1].ino # wlog[k].ino

\* two calls crossed the threshold together and a third one rotated
C12_Witness ==
  /\ SizeCase
  /\ \E k \in 2 .. (nWrites - 1) : Crossing(k) /\ RotationsAt(k + 1) # {}

\* a writer by hour or by day
TimeCase == rw = "ok" /\ rwSt.rotateMode \in {RotateByHour, RotateByDay}

\* the bucket of a time under the writer's mode: YYYY-MM-DD-HH or YYYY-MM-DD
Bucket(t) == IF rwSt.rotateMode = RotateByHour THEN FormatHour(t) ELSE FormatDay(t)

\* C13: of two consecutive Write calls in different buckets the second makes
\* exactly one rotation, whose archive is named by the bucket of the first;
\* of two consecutive Write calls in the same bucket the second makes none.
C13_RotatesPerBucket ==
  TimeCase =>
    \A k \in 2 .. nWrites :
      IF Bucket(wlog[k - 1].t) # Bucket(wlog[k].t)
      THEN /\ Cardinality(RotationsAt(k)) = 1
           /\ \A i \in RotationsAt(k) :
                rotLog[i].path = ArchivePath(Bucket(wlog[k - 1].t))
      ELSE RotationsAt(k) = {}

\* C14: a Write call whose rotation fails writes nothing and leaves the open
\* handle as it was, and the next Write call attempts the rotation again, so
\* that without a further fault its message goes to a fresh file.
C14_RetryNextWrite ==
  rw = "ok" =>
    \A k \in 1 .. nWrites :
      wlog[k].err =>
        /\ wlog[k].ino = 0
        /\ wlog[k].fpAfter = wlog[k].fpBefore
        /\ nWrites > k =>
             /\ \E i \in 1 .. Len(rotLog) : rotLog[i].k = k + 1
             /\ ~wlog[k + 1].err => wlog[k + 1].ino # wlog[k].fpBefore

(***************************************************************************)
(* Redirects.                                                              *)
(***************************************************************************)
\* the Write calls a sink received from the scanning goroutine
ScanEntries(w) == SelectSeq(written[w], LAMBDA e : e.g = Scanner)

\* the redirect was cancelled and its goroutine has ended
RedirectOver == cpc.pc = "done" /\ spc = "done"

\* C15: after AddRedirect with an admitted level, lines written through the
\* slot and CancelRedirect, the slot holds the value it held before and
\* every sink has received each line exactly once, at the given level.
C15_RoundTrip ==
  (RedirectOver /\ Admit(rd.level, level)) =>
    /\ slot = "orig"
    /\ \A i \in 1 .. Len(slines) : \A w \in Range(WritersOf(Outs)) :
         Cardinality({j \in 1 .. Len(written[w]) :
                        /\ written[w][j].g = Scanner
                        /\ semit[written[w][j].n] = slines[i].id
                        /\ written[w][j].level = rd.level}) = 1

\* C16: after CancelRedirect the scanning goroutine emits every line that
\* was still in the pipe, then exactly one completion line, and ends (here
\* for a threshold that admits both).
C16_ScanCompletes ==
  (RedirectOver /\ Admit(rd.level, level) /\ Admit(LevelWarn, level)) =>
    \A w \in Range(WritersOf(Outs)) :
      LET es == ScanEntries(w) IN
      /\ \A i \in 1 .. Len(atCancel) :
           \E j \in 1 .. Len(es) : semit[es[j].n] = atCancel[i].id
      /\ Cardinality({j \in 1 .. Len(es) : semit[es[j].n] = 0}) = 1
      /\ es # << >> /\ semit[es[Len(es)].n] = 0


\* C17: once Close() has been called on an asynchronous Logger whose producers
\* have stopped, no task sends on a closed queue or handles a nil message, and
\* copyRoutine does not go on round its loop after it found chCmd closed.
C17_CloseTerminates == closedCmd => (~crashed /\ ~dspun)

\* the item was written by the writer
Flushed(x) == \E i \in 1 .. Len(written[x[3]]) :
                written[x[3]][i].g = x[1] /\ written[x[3]][i].n = x[2]

\* C18: every message of level Warn or above that was queued when Close() was
\* called is written to every registered sink: the process is not brought
\* down by a panic while one of them is unwritten.
C18_CloseFlushes == crashed => \A x \in mustFlush : Flushed(x)


\* C19: when os.Exit or panic takes effect in Fatal, Fatalln, Fatalf, Panic,
\* Panicln or Panicf, every sink that was registered when the wrapper was
\* called has written the message, in synchronous and in asynchronous mode.
C19_FatalEmitsFirst ==
  fatal.pc = "over" => \A w \in fatal.must : Flushed(<<fatal.g, fatal.n, w>>)


\* the rendering of a placeholder: the level tag, the file, function and line
\* of the calling site, the time of the emit
Field(kw, lv) ==
  IF kw = KwLevelno THEN <<<<"D">>, <<"I">>, <<"W">>, <<"E">>, <<"C">>>>[lv + 1]
  ELSE IF kw = KwFilename THEN <<"f", ".", "g", "o">>
  ELSE IF kw = KwFunction THEN <<"F">>
  ELSE IF kw = KwLineno THEN <<"4", "2">>
  ELSE <<"2", "0", "2", "4", "-", "0", "1", "-", "0", "2", " ",
         "0", "3", ":", "0", "4", ":", "0", "5", ".", "0", "0", "6">>

\* the header a format string stands for, read from position p on: its text
\* with every placeholder replaced by the rendering of its keyword
RECURSIVE HeaderOf(_, _, _)
HeaderOf(fmtStr, p, lv) ==
  IF p > Len(fmtStr) THEN << >>
  ELSE LET e == MatchAt(fmtStr, p) IN
       IF e = 0 THEN <<fmtStr[p]>> \o HeaderOf(fmtStr, p + 1, lv)
       ELSE Field(Split(Slice(fmtStr, p + 2, e - 1), ":")[1], lv) \o HeaderOf(fmtStr, e + 1, lv)

\* C20: the bytes passed to the sinks are the header of the format string,
\* then the message, then one line terminator exactly when the message is
\* empty or does not end with one; a format string without placeholders
\* renders to itself, and the bytes always end with a line terminator.
C20_LineComposition ==
  composed.done =>
    LET h == HeaderOf(newArgs.fmtStr, 1, composed.level)
        s == composed.s
        line == composed.line
        ends == Len(s) > 0 /\ s[Len(s)] = "\n"
    IN /\ line = h \o s \o (IF ends THEN << >> ELSE <<"\n">>)
       /\ FindAll(newArgs.fmtStr, 1) = << >> => h = newArgs.fmtStr
       /\ line[Len(line)] = "\n"
       /\ gpc[1] = "idle" => /\ Len(written[newArgs.out]) = 1
                             /\ written[newArgs.out][1].level = composed.level

\* a message that ends with a terminator was composed under a format string
\* of a literal and a placeholder
C20_Witness ==
  /\ composed.done
  /\ composed.s = <<"a", "\n">>
  /\ newArgs.fmtStr = PcText \o PcLevelno
  /\ composed.line = <<"x", " ", "W", "a", "\n">>
  /\ Len(written[1]) = 1


\* the format string holds the placeholder of the keyword
HasKeyword(fmtStr, kw) ==
  \E i \in 1 .. Len(fmtStr) :
    MatchAt(fmtStr, i) > 0 /\ Split(Slice(fmtStr, i + 2, MatchAt(fmtStr, i) - 1), ":")[1] = kw

\* C21: under every format string that holds %(lineno), wherever it stands
\* and whether or not %(filename) or %(function) stand before it, the
\* placeholder renders the line number of the calling site.
C21_LinenoIsCallSite ==
  (composed.done /\ HasKeyword(newArgs.fmtStr, KwLineno)) =>
    composed.line = HeaderOf(newArgs.fmtStr, 1, composed.level)
                      \o output(<< >>, composed.level, composed.s, CallEnv)


\* the level an emitter is named after
NameLevel ==
  [Debugf |-> LevelDebug, Infof |-> LevelInfo, Warnf |-> LevelWarn,
   Errorf |-> LevelError, Criticalf |-> LevelCritical,
   DebugJson |-> LevelDebug, InfoJson |-> LevelInfo, WarnJson |-> LevelWarn,
   ErrorJson |-> LevelError, CriticalJson |-> LevelCritical]

\* C22: a call of Debugf .. Criticalf or DebugJson .. CriticalJson is
\* rejected exactly when the level of its name is below the threshold, and the
\* record the sinks receive carries the level of its name.
C22_EmitterLevel ==
  \A x \in named :
    gcount[x[1]] >= x[2] =>
      /\ (<<x[1], x[2]>> \in rejected) <=> (NameLevel[x[3]] < level)
      /\ \A w \in Sinks : \A i \in 1 .. Len(written[w]) :
           (written[w][i].g = x[1] /\ written[w][i].n = x[2])
             => written[w][i].level = NameLevel[x[3]]


\* both Redirectors of the slot have been cancelled
BothCancelled == cpc.pc = "done" /\ rd2.pc = "done"

\* C23 as stated: after both Redirectors of a slot redirected twice have been
\* cancelled, in whichever order, the slot does not hold the stream it held
\* before the first AddRedirect.
C23_NeverRestored == BothCancelled => slot # "orig"

\* C23, amended: after both have been cancelled in the order in which they
\* were added, the slot does not hold the stream it held before the first
\* AddRedirect.
C23_NotRestoredInOrder == (BothCancelled /\ rd2.after1) => slot # "orig"

\* the first Redirector was cancelled, then the second: the slot holds the
\* write end of the first pipe
C23_Witness == BothCancelled /\ rd2.after1 /\ slot = "pipe" /\ ~pipeOpen


\* the bytes a file held before Write call k: what was found in it at
\* construction and the messages of the earlier calls
RECURSIVE BytesBefore(_, _)
BytesBefore(data, k) ==
  IF data = << >> THEN 0
  ELSE (IF Head(data)[1] < k THEN Head(data)[2] ELSE 0) + BytesBefore(Tail(data), k)

\* a writer by size
BySize == rw = "ok" /\ rwSt.rotateMode = RotateBySize

\* C24: a Write call of a writer by size rotates exactly when the live file
\* holds more bytes than the threshold at the start of the call (not when it
\* holds exactly the threshold), and after a call that rotated the count is
\* the length of that call's message.
C24_RotatesWhenOver ==
  BySize =>
    /\ \A k \in 1 .. nWrites :
         (RotationsAt(k) # {})
           <=> (BytesBefore(fsInodes[wlog[k].fpBefore].data, k) > rwSt.rotateSize)
    /\ (nWrites > 0 /\ RotationsAt(nWrites) # {}) => rwSt.writedSize = wlog[nWrites].len

\* a call found the live file at exactly the threshold and did not rotate; the
\* next found it over the threshold and rotated
C24_Witness ==
  /\ BySize
  /\ \E k \in 1 .. (nWrites - 1) :
       /\ BytesBefore(fsInodes[wlog[k].fpBefore].data, k) = rwSt.rotateSize
       /\ RotationsAt(k) = {}
       /\ RotationsAt(k + 1) # {}
  /\ RotationsAt(nWrites) # {}

\* C25: without faults the byte counter of a writer by size equals the size
\* of the live file after construction and after every Write call, also when
\* the file existed at construction and after a rotation.
C25_CounterIsFileSize ==
  BySize =>
    /\ LivePath \in DOMAIN fsDir
    /\ rwSt.fp = fsDir[LivePath]
    /\ rwSt.writedSize = BytesBefore(fsInodes[fsDir[LivePath]].data, nWrites + 1)

\* the file held bytes at construction, was written to and rotated, and the
\* new live file was written to
C25_Witness ==
  /\ BySize
  /\ \E i \in 1 .. Len(rotLog) :
       /\ rotLog[i].renamed
       /\ Len(rotLog[i].data) >= 2
       /\ Head(rotLog[i].data)[1] = 0
  /\ rwSt.writedSize > 0
  /\ rwSt.writedSize = BytesBefore(fsInodes[fsDir[LivePath]].data, nWrites + 1)


\* C26: the diagnostic a failed rotation prints in RotateWriter.Write causes
\* no emit on the Logger that owns the writer, also while os.Stderr is
\* redirected into that Logger: the scanning goroutine of the redirect emits
\* no line that Write printed.
C26_DiagnosticStaysOut ==
  \A i \in 1 .. Len(semit) : semit[i] = 0


\* C27: an admitted message of level Warn or above that a goroutine emits
\* after NewLogger, and after its own AddOutput(w), have returned is fanned out
\* to a sink list that holds the sink of NewLogger, and w: copyRoutine does not
\* take it before the pending add command.
C27_RegisteredBeforeFanOut ==
  (dpc = "fan" /\ dloc.item.level >= LevelWarn) =>
    /\ 1 \in Range(WritersOf(dloc.rng))
    /\ dloc.item.g = 2 => 2 \in Range(WritersOf(dloc.rng))


\* the partition of a format string read from position p on, lit being the
\* text read since the last placeholder: one entry per placeholder, of its
\* keyword, its field name (the alias when there is one) and its text, and
\* one entry per maximal run of other text
RECURSIVE Partition(_, _, _)
Partition(fmtStr, p, lit) ==
  LET run == IF lit = << >> THEN << >>
             ELSE << [isCopy |-> TRUE, text |-> lit, name |-> << >>, kw |-> << >>] >>
  IN IF p > Len(fmtStr) THEN run
     ELSE LET e == MatchAt(fmtStr, p) IN
          IF e = 0 THEN Partition(fmtStr, p + 1, Append(lit, fmtStr[p]))
          ELSE LET inner == Slice(fmtStr, p + 2, e - 1)
                   c == IndexFrom(inner, ":", 1)
               IN run \o << [isCopy |-> FALSE, text |-> Slice(fmtStr, p, e),
                             name |-> IF c = 0 THEN inner
                                      ELSE Slice(inner, c + 1, Len(inner)),
                             kw |-> IF c = 0 THEN inner ELSE Slice(inner, 1, c - 1)] >>
                    \o Partition(fmtStr, e + 1, << >>)

\* C28: the sessions of a compiled format string are its partition in order:
\* one directive session per placeholder, named by the alias when given and by
\* the keyword otherwise, one literal session per maximal run of other text,
\* copied verbatim and never empty, and the texts of the sessions together
\* are the format string.
C28_SessionsPartition ==
  logger = "ok" =>
    LET part == Partition(newArgs.fmtStr, 1, << >>) IN
    /\ Len(headerSessions) = Len(part)
    /\ \A i \in 1 .. Len(part) :
         /\ headerSessions[i].isCopy = part[i].isCopy
         /\ part[i].isCopy =>
              /\ headerSessions[i].strCopy = part[i].text
              /\ headerSessions[i].strCopy # << >>
              /\ i > 1 => ~headerSessions[i - 1].isCopy
         /\ ~part[i].isCopy =>
              /\ headerSessions[i].name = part[i].name
              /\ headerSessions[i].gen = part[i].kw
              /\ part[i].kw \in Keywords
    /\ Concat([i \in 1 .. Len(part) |-> part[i].text]) = newArgs.fmtStr

\* a format string of an aliased placeholder and text was compiled
C28_Witness ==
  /\ logger = "ok"
  /\ newArgs.fmtStr = PcAsctimeAs \o PcText
  /\ Len(headerSessions) = 2
  /\ headerSessions[1].name = <<"t", "s">>
  /\ headerSessions[2].strCopy = PcText


\* the literal a format string starts with: its text before the first placeholder
LeadingLiteral(fmtStr) ==
  LET ms == FindAll(fmtStr, 1) IN
  IF ms = << >> THEN fmtStr ELSE Slice(fmtStr, 1, ms[1][1] - 1)

\* the placeholders of a format string in order, each with its keyword and
\* its field name (the alias, or the keyword when it has none)
Directives(fmtStr) ==
  LET ms == FindAll(fmtStr, 1) IN
  [i \in 1 .. Len(ms) |->
     LET secs == Split(Slice(fmtStr, ms[i][1] + 2, ms[i][2] - 1), ":") IN
     [kw |-> secs[1], name |-> IF Len(secs) > 1 THEN secs[2] ELSE secs[1]]]

\* the caller's fields with one field per field name of the placeholders,
\* rendered by the placeholder pick(name) chooses
MergedFields(items, ds, lv, pick(_)) ==
  LET names == {ds[i].name : i \in DOMAIN ds} IN
  [k \in DOMAIN items \cup names |->
     IF k \in names THEN JStr(Field(ds[pick(k)].kw, lv)) ELSE items[k]]

\* C29 as stated: an admitted OutputJson call passes to the sinks the leading
\* literal of the format string (nothing when it starts with a placeholder),
\* then one JSON object of the caller's fields and, for every placeholder, a
\* field of its field name that holds its rendering, which replaces a caller
\* field of the same key, then a line terminator; no other literal appears.
C29_JsonRecord ==
  jrec.done =>
    LET ds == Directives(newArgs.fmtStr)
        any(k) == CHOOSE i \in DOMAIN ds : ds[i].name = k
        obj == MergedFields(jrec.items, ds, jrec.level, any)
    IN /\ \A i \in DOMAIN ds : obj[ds[i].name] = JStr(Field(ds[i].kw, jrec.level))
       /\ jrec.wrote
       /\ jrec.buf = LeadingLiteral(newArgs.fmtStr) \o Marshal(obj).buf \o <<"\n">>
       /\ gpc[1] = "idle" => Len(written[newArgs.out]) = 1

\* C29, amended: the object holds the caller's fields and one field per field
\* name of the placeholders, rendered by the last placeholder of that name and
\* replacing a caller field of the same key; when Marshal can serialize the
\* object the sinks receive the leading literal, the object and a line
\* terminator, and when it cannot they receive nothing.
C29_JsonRecordWhenSerializable ==
  jrec.done =>
    LET ds == Directives(newArgs.fmtStr)
        last(k) == CHOOSE i \in DOMAIN ds :
                     ds[i].name = k /\ \A j \in DOMAIN ds : j > i => ds[j].name # k
        obj == MergedFields(jrec.items, ds, jrec.level, last)
    IN IF \E k \in DOMAIN obj : obj[k] = JBad
       THEN ~jrec.wrote /\ jrec.buf = << >> /\ written[newArgs.out] = << >>
       ELSE /\ jrec.wrote
            /\ jrec.buf = LeadingLiteral(newArgs.fmtStr) \o Marshal(obj).buf \o <<"\n">>
            /\ gpc[1] = "idle" => /\ Len(written[newArgs.out]) = 1
                                  /\ written[newArgs.out][1].level = jrec.level

\* a record under a format string of a leading literal, a placeholder with an
\* alias and a second literal, for a caller who passes a field of the alias
C29_Witness ==
  /\ jrec.done
  /\ newArgs.fmtStr = PcText \o PcLevelnoAs \o PcText
  /\ jrec.level = LevelWarn
  /\ DOMAIN jrec.items = JsonKeys
  /\ jrec.items[<<"a">>] = JInt(1)
  /\ jrec.items[<<"n">>] = JStr(<<"b">>)
  /\ jrec.buf = <<"x", " ", "{", "\"", "a", "\"", ":", "1", ",",
                  "\"", "n", "\"", ":", "\"", "W", "\"", "}", "\n">>
  /\ Len(written[1]) = 1


\* the header a format string stands for when %(levelno) renders as tag
RECURSIVE HeaderTagged(_, _, _, _)
HeaderTagged(fmtStr, p, lv, tag) ==
  IF p > Len(fmtStr) THEN << >>
  ELSE LET e == MatchAt(fmtStr, p) IN
       IF e = 0 THEN <<fmtStr[p]>> \o HeaderTagged(fmtStr, p + 1, lv, tag)
       ELSE LET kw == Split(Slice(fmtStr, p + 2, e - 1), ":")[1] IN
            (IF kw = KwLevelno THEN tag ELSE Field(kw, lv))
            \o HeaderTagged(fmtStr, e + 1, lv, tag)

\* the tag an emit at the level is to render: the name of the last
\* SetLevelTag of that level, and the tag the level starts with when there
\* was none
TagDue(lv) ==
  IF tagged[lv].set THEN tagged[lv].name
  ELSE <<<<"D">>, <<"I">>, <<"W">>, <<"E">>, <<"C">>>>[lv + 1]

\* C30: an emit renders %(levelno) as the name the last SetLevelTag of its
\* level gave, whether the Logger was constructed before or after that call,
\* and as the tag the level started with when no SetLevelTag named its level.
C30_TagReadAtRender ==
  [][(composed'.done /\ ~composed.done) =>
       composed'.line = HeaderTagged(newArgs.fmtStr, 1, composed'.level,
                                     TagDue(composed'.level)) \o <<"a", "\n">>]_vars

\* an emit at a level whose tag was set after the Logger was constructed
\* renders the new name, next to a SetLevelTag of another level
C30_Witness ==
  /\ composed.done
  /\ composed.level = LevelWarn
  /\ newArgs.fmtStr = PcText \o PcLevelno
  /\ tagged[LevelWarn] = [set |-> TRUE, name |-> <<"T">>, built |-> TRUE]
  /\ tagged[LevelError].set
  /\ composed.line = <<"x", " ", "T", "a", "\n">>


\* the header a format string stands for when every placeholder of the
\* calling site renders from the item one lookup leaves
RECURSIVE HeaderFromLookup(_, _, _, _)
HeaderFromLookup(fmtStr, p, lv, it) ==
  IF p > Len(fmtStr) THEN << >>
  ELSE LET e == MatchAt(fmtStr, p) IN
       IF e = 0 THEN <<fmtStr[p]>> \o HeaderFromLookup(fmtStr, p + 1, lv, it)
       ELSE LET kw == Split(Slice(fmtStr, p + 2, e - 1), ":")[1] IN
            (IF kw = KwFilename THEN it.filename
             ELSE IF kw = KwFunction THEN it.function
             ELSE IF kw = KwLineno THEN Itoa(it.line)
             ELSE Field(kw, lv))
            \o HeaderFromLookup(fmtStr, e + 1, lv, it)

\* C31: while one event is rendered the call-stack lookup runs at most once,
\* whatever placeholders of the calling site the format string holds, in
\* whatever order, and whether or not the lookup succeeds; and when the
\* format string holds such a placeholder, all of them render the values of
\* one lookup.
C31_LookupOnce ==
  composed.done =>
    /\ composed.lookups <= 1
    /\ (\E kw \in {KwFilename, KwFunction, KwLineno} : HasKeyword(newArgs.fmtStr, kw)) =>
         composed.line =
           HeaderFromLookup(newArgs.fmtStr, 1, composed.level,
                            initCaller(NewItem(composed.level), composed.env))
           \o composed.s \o <<"\n">>

====
